---- MODULE Spec2Model ----
(***************************************************************************)
(* Tenant-scoped file ingestion of the file service: upload_file and the   *)
(* helpers it calls (rate limiter, upload lock, validation engine, zip     *)
(* depth inspector, content sniffing, FileCRUD.create).                    *)
(*                                                                         *)
(* Strings that the code takes apart (file names, extensions) are          *)
(* sequences of one-character strings; media types, tenant codes and       *)
(* status codes are atoms.  A stored file is its length in bytes; what the *)
(* bytes are is carried by the call's input (leading sample, archive       *)
(* structure).                                                             *)
(***************************************************************************)
EXTENDS Integers, Sequences, FiniteSets, TLC

\* ------------------------------------------------------------ bounds
NumCalls == 2
MaxNest == 2

\* ------------------------------------------------- program constants
ChunkSize == 1048576
UploadMaxRequests == 50
MaxNameLen == 200

Calls == 1..NumCalls
None == "None"
Tenants == {"t1", "t2"}

\* ------------------------------------------------------------ strings
LowerChar(ch) ==
  CASE ch = "A" -> "a" [] ch = "D" -> "d" [] ch = "F" -> "f" [] ch = "I" -> "i"
    [] ch = "P" -> "p" [] ch = "T" -> "t" [] ch = "X" -> "x" [] ch = "Z" -> "z"
    [] OTHER -> ch

Lower(s) == [i \in 1..Len(s) |-> LowerChar(s[i])]

LastIndexOf(s, ch) ==
  LET hits == {i \in 1..Len(s) : s[i] = ch}
  IN IF hits = {} THEN 0 ELSE CHOOSE i \in hits : \A j \in hits : j <= i

\* os.path.splitext(p)[1]
SplitExt(p) ==
  LET sep == LastIndexOf(p, "/")
      dot == LastIndexOf(p, ".")
  IN IF dot > sep /\ (\E i \in (sep + 1)..(dot - 1) : p[i] # ".")
       THEN SubSeq(p, dot, Len(p))
       ELSE << >>

NormalizeExtension(filename) == Lower(SplitExt(filename))

\* Variant: a character is never replaced.
ReplaceCharKeeps(s, a, b) == s

RemoveAll(s, ch) == SelectSeq(s, LAMBDA x : x # ch)

\* name.replace("..", ""): the leftmost ".." is cut out and the search goes on
\* after it
RECURSIVE RemoveDotDot(_)
RemoveDotDot(s) ==
  LET found == {i \in 1..(Len(s) - 1) : s[i] = "." /\ s[i + 1] = "."}
  IN IF found = {} THEN s
     ELSE LET first == CHOOSE i \in found : \A j \in found : i <= j
          IN SubSeq(s, 1, first - 1) \o RemoveDotDot(SubSeq(s, first + 2, Len(s)))

ReplaceChar(s, a, b) == [i \in 1..Len(s) |-> IF s[i] = a THEN b ELSE s[i]]

Basename(s) == SubSeq(s, LastIndexOf(s, "/") + 1, Len(s))

UnnamedFile == <<"u", "n", "n", "a", "m", "e", "d", "_", "f", "i", "l", "e">>
TimestampName == <<"f", "i", "l", "e", "_", "1", "7">>
DefaultName == <<"f", "i", "l", "e">>

SanitizeFilename(name) ==
  IF name = << >> THEN UnnamedFile
  ELSE LET n1 == RemoveAll(name, "NUL")
           n2 == RemoveDotDot(n1)
           n3 == ReplaceChar(n2, "/", "_")
           n4 == ReplaceChar(n3, "\\", "_")
           n5 == Basename(n4)
           n6 == IF Len(n5) > MaxNameLen THEN SubSeq(n5, 1, MaxNameLen) ELSE n5
       IN IF n6 = << >> \/ n6 = <<".">> \/ n6 = <<".", ".">> THEN TimestampName ELSE n6

\* file.filename or "file"
FilenameOrDefault(filename) == IF filename = << >> THEN DefaultName ELSE filename

ExtTxt == <<".", "t", "x", "t">>
ExtTxtUpper == <<".", "T", "X", "T">>
ExtPdf == <<".", "p", "d", "f">>
ExtZip == <<".", "z", "i", "p">>
ExtPng == <<".", "p", "n", "g">>

\* mimetypes.guess_type(filename)[0]
GuessType(filename) ==
  LET e == Lower(SplitExt(filename))
  IN CASE e = ExtTxt -> "text/plain"
       [] e = ExtPdf -> "application/pdf"
       [] e = ExtZip -> "application/zip"
       [] e = ExtPng -> "image/png"
       [] OTHER -> None

DetectMime(filename, fallback) ==
  IF fallback # None THEN fallback
  ELSE IF GuessType(filename) # None THEN GuessType(filename)
  ELSE "application/octet-stream"

LowerMime(m) ==
  CASE m = "TEXT/PLAIN" -> "text/plain"
    [] m = "APPLICATION/PDF" -> "application/pdf"
    [] OTHER -> m

\* generate_file_path: <tenant folder>/<file_id><ext>
GenerateFilePath(tenant_code, fid, filename) ==
  <<tenant_code, fid, SplitExt(SanitizeFilename(filename))>>

\* ------------------------------------------------- zip depth inspector
\* An archive is [kind, nested]: kind "zip" is a well-formed archive, "bad" one
\* that zipfile rejects (BadZipFile), "unreadable" one whose inspection raises
\* any other exception; nested lists its entries whose name ends in .zip.
RECURSIVE ZipChain(_, _)
ZipChain(d, innermost) ==
  IF d = 0 THEN [kind |-> innermost, nested |-> << >>]
  ELSE [kind |-> "zip", nested |-> <<ZipChain(d - 1, innermost)>>]

TruncatedArchive == [kind |-> "bad", nested |-> << >>]

RECURSIVE ValidateZipDepth(_, _)
ValidateZipDepth(a, max_depth) ==
  IF max_depth < 0 THEN "ok"
  ELSE IF a.kind = "bad" THEN "Invalid ZIP file format"
  ELSE IF a.kind = "unreadable" THEN "ok"
  ELSE LET RECURSIVE Scan(_)
           Scan(i) ==
             IF i > Len(a.nested) THEN "ok"
             ELSE IF max_depth = 0 THEN "ZIP files with nested ZIPs are not allowed"
             ELSE LET r == ValidateZipDepth(a.nested[i], max_depth - 1)
                  IN IF r # "ok" THEN r ELSE Scan(i + 1)
       IN Scan(1)

\* ---------------------------------------------------- validation engine
\* A tenant configuration holds its optional integers as << >> (null) or <<n>>,
\* its lists as sets.
\* Variant: the size in KB rounded down instead of up.
SizeExceedsFloor(size_bytes, max_kb) == size_bytes \div 1024 > max_kb

\* size_kb = (size_bytes + 1023) // 1024; size_kb > max_kb
SizeExceeds(size_bytes, max_kb) == (size_bytes + 1023) \div 1024 > max_kb

\* Variant: a file of exactly the limit is rejected too.
SizeCheckInclusive(cfg, size_bytes) ==
  LET max_kb == cfg.max_file_size_kbytes
  IN IF max_kb # << >> /\ max_kb[1] > 0 /\ (size_bytes + 1023) \div 1024 >= max_kb[1]
       THEN "File exceeds maximum allowed size"
       ELSE "ok"

SizeCheck(cfg, size_bytes) ==
  LET max_kb == cfg.max_file_size_kbytes
  IN IF max_kb # << >> /\ max_kb[1] > 0 /\ SizeExceeds(size_bytes, max_kb[1])
       THEN "File exceeds maximum allowed size"
       ELSE "ok"

\* Variant: an empty allowed_extensions list admits every extension.
ExtensionCheckOpenWhenEmpty(cfg, ext) ==
  LET allowed_exts == {Lower(e) : e \in cfg.allowed_extensions}
      forbidden_exts == {Lower(e) : e \in cfg.forbidden_extensions}
  IN IF ext \in forbidden_exts THEN "File extension is forbidden"
     ELSE IF allowed_exts # {} /\ ext \notin allowed_exts THEN "File extension not allowed"
     ELSE "ok"

ExtensionCheck(cfg, ext) ==
  LET allowed_exts == {Lower(e) : e \in cfg.allowed_extensions}
      forbidden_exts == {Lower(e) : e \in cfg.forbidden_extensions}
  IN IF ext \in forbidden_exts THEN "File extension is forbidden"
     ELSE IF allowed_exts # {} /\ ext \notin allowed_exts THEN "File extension not allowed"
     ELSE IF allowed_exts = {} THEN "File extension not allowed"
     ELSE "ok"

\* Variant: a media type on the allowed list passes before the forbidden list is read.
MimeCheckAllowedFirst(cfg, mime) ==
  LET allowed_mimes == {LowerMime(m) : m \in cfg.allowed_mime_types}
      forbidden_mimes == {LowerMime(m) : m \in cfg.forbidden_mime_types}
  IN IF allowed_mimes = {} THEN "MIME type not allowed"
     ELSE IF LowerMime(mime) \in allowed_mimes THEN "ok"
     ELSE IF LowerMime(mime) \in forbidden_mimes THEN "MIME type is forbidden"
     ELSE "MIME type not allowed"

MimeCheck(cfg, mime) ==
  LET allowed_mimes == {LowerMime(m) : m \in cfg.allowed_mime_types}
      forbidden_mimes == {LowerMime(m) : m \in cfg.forbidden_mime_types}
  IN IF LowerMime(mime) \in forbidden_mimes THEN "MIME type is forbidden"
     ELSE IF allowed_mimes # {} /\ LowerMime(mime) \notin allowed_mimes THEN "MIME type not allowed"
     ELSE IF allowed_mimes = {} THEN "MIME type not allowed"
     ELSE "ok"

ZipCheck(cfg, ext, archive) ==
  IF ext = ExtZip /\ cfg.max_zip_depth # << >>
    THEN ValidateZipDepth(archive, cfg.max_zip_depth[1])
    ELSE "ok"

\* Variant: no rule against empty files.
ValidateAgainstConfigEmptyAllowed(cfg, ext, mime, size_bytes, archive) ==
  IF SizeCheck(cfg, size_bytes) # "ok" THEN SizeCheck(cfg, size_bytes)
  ELSE IF ExtensionCheck(cfg, ext) # "ok" THEN ExtensionCheck(cfg, ext)
  ELSE IF MimeCheck(cfg, mime) # "ok" THEN MimeCheck(cfg, mime)
  ELSE ZipCheck(cfg, ext, archive)

\* Variant: the extension and media-type rules come before the size rules.
ValidateAgainstConfigListsFirst(cfg, ext, mime, size_bytes, archive) ==
  IF ExtensionCheck(cfg, ext) # "ok" THEN ExtensionCheck(cfg, ext)
  ELSE IF MimeCheck(cfg, mime) # "ok" THEN MimeCheck(cfg, mime)
  ELSE IF size_bytes = 0 THEN "Empty files are not allowed"
  ELSE IF SizeCheck(cfg, size_bytes) # "ok" THEN SizeCheck(cfg, size_bytes)
  ELSE ZipCheck(cfg, ext, archive)

\* _validate_against_config: "ok" or the detail of the HTTP 400 it raises.
\* archive is what zipfile finds at file_path when the call is made.
ValidateAgainstConfig(cfg, ext, mime, size_bytes, archive) ==
  IF size_bytes = 0 THEN "Empty files are not allowed"
  ELSE IF SizeCheck(cfg, size_bytes) # "ok" THEN SizeCheck(cfg, size_bytes)
  ELSE IF ExtensionCheck(cfg, ext) # "ok" THEN ExtensionCheck(cfg, ext)
  ELSE IF MimeCheck(cfg, mime) # "ok" THEN MimeCheck(cfg, mime)
  ELSE ZipCheck(cfg, ext, archive)

\* ------------------------------------------------------ content sniffing
\* A sample is the first KiB of the stored file: head is the signature it starts
\* with, marks the substrings found in its leading bytes.
Docx == "application/vnd.openxmlformats-officedocument.wordprocessingml.document"
Xlsx == "application/vnd.openxmlformats-officedocument.spreadsheetml.sheet"
Pptx == "application/vnd.openxmlformats-officedocument.presentationml.presentation"

SniffMime(sample, detected_mime) ==
  IF sample.head = "%PDF-" THEN "application/pdf"
  ELSE IF sample.head = "PNG" THEN "image/png"
  ELSE IF sample.head = "JPEG" THEN "image/jpeg"
  ELSE IF sample.head = "GIF87a" \/ sample.head = "GIF89a" THEN "image/gif"
  ELSE IF sample.head = "RIFF" /\ "WEBP" \in sample.marks THEN "image/webp"
  ELSE IF sample.head = "PK" /\ "word/" \in sample.marks THEN Docx
  ELSE IF sample.head = "PK" /\ "xl/" \in sample.marks THEN Xlsx
  ELSE IF sample.head = "PK" /\ "ppt/" \in sample.marks THEN Pptx
  ELSE detected_mime

\* str.startswith('application/pdf') on the media types of the model
StartsWithPdf(m) == m \in {"application/pdf", "application/pdf; version=1.7"}

\* Variant: only a non-.pdf name over PDF bytes counts as a mismatch.
ContentMismatchPdfBytesOnly(expected_ext, actual_mime) ==
  IF expected_ext # ExtPdf /\ StartsWithPdf(actual_mime) THEN TRUE
  ELSE FALSE

ContentMismatch(expected_ext, actual_mime) ==
  IF expected_ext = ExtPdf /\ ~StartsWithPdf(actual_mime) THEN TRUE
  ELSE IF expected_ext # ExtPdf /\ StartsWithPdf(actual_mime) THEN TRUE
  ELSE FALSE

\* _validate_file_content_vs_extension: the media type to store, or a rejection
ValidateFileContentVsExtension(sample, expected_ext, detected_mime) ==
  LET actual_mime == SniffMime(sample, detected_mime)
  IN IF ContentMismatch(expected_ext, actual_mime)
       THEN [rejected |-> TRUE, mime |-> actual_mime]
       ELSE [rejected |-> FALSE, mime |-> actual_mime]

\* ------------------------------------------------------------- inputs
Cfg(max_kb, allowed_exts, forbidden_exts, allowed_mimes, forbidden_mimes, depth) ==
  [max_file_size_kbytes |-> max_kb,
   allowed_extensions |-> allowed_exts, forbidden_extensions |-> forbidden_exts,
   allowed_mime_types |-> allowed_mimes, forbidden_mime_types |-> forbidden_mimes,
   max_zip_depth |-> depth]

\* The arguments of one upload_file call. sample and archive say what the bytes
\* of the stream are; redis is whether the caller passed a cache handle.
In(tenant, filename, content_type, length, sample, archive, redis, cfg) ==
  [tenant |-> tenant, filename |-> filename, content_type |-> content_type,
   length |-> length, sample |-> sample, archive |-> archive, redis |-> redis,
   config |-> cfg]

NameATxt == <<"a", ".", "t", "x", "t">>
NameBTxt == <<"b", ".", "t", "x", "t">>
NameUpperTxt == <<"A", ".", "T", "X", "T">>
NamePdf == <<"r", ".", "p", "d", "f">>
NamePng == <<"p", ".", "p", "n", "g">>
NameZip == <<"z", ".", "z", "i", "p">>
NameNoExt == <<"r", "e", "a", "d">>

PlainSample == [head |-> "text", marks |-> {}]
ZipSample == [head |-> "PK", marks |-> {}]
PdfSample == [head |-> "%PDF-", marks |-> {}]
Samples ==
  {[head |-> h, marks |-> {}] : h \in {"text", "%PDF-", "PNG", "JPEG", "GIF87a", "GIF89a", "RIFF", "PK"}}
  \cup {[head |-> "RIFF", marks |-> {"WEBP"}]}
  \cup {[head |-> "PK", marks |-> m] : m \in {{"word/"}, {"xl/"}, {"ppt/"}, {"word/", "xl/"}}}

NotAnArchive == [kind |-> "bad", nested |-> << >>]
Archives ==
  {ZipChain(d, k) : d \in 0..MaxNest, k \in {"zip", "bad", "unreadable"}}
  \cup {[kind |-> "zip", nested |-> <<ZipChain(0, "zip"), ZipChain(1, "zip")>>]}

TextMimes == {"text/plain", "application/pdf", "application/octet-stream"}
AllMimes == TextMimes \cup {"application/zip", "image/png"}
AllExts == {ExtTxt, ExtPdf, ExtZip, ExtPng}
OpenCfg == Cfg(<< >>, AllExts, {}, AllMimes, {}, <<0>>)
SmallCfg == Cfg(<<1>>, {ExtTxt, ExtPdf}, {}, TextMimes, {}, <<0>>)

Lengths == {0, 1, 1024, 1025, 2048, 2049, ChunkSize, ChunkSize + 1, 2 * ChunkSize + 1}
MaxKbs == {<< >>, <<0>>, <<1>>, <<2>>, <<1024>>}

SizeCases ==
  {In("t1", NameATxt, "text/plain", len, PlainSample, NotAnArchive, r,
      Cfg(k, {ExtTxt}, {}, {"text/plain"}, {}, <<0>>)) :
     len \in Lengths, k \in MaxKbs, r \in BOOLEAN}

ExtCases ==
  {In("t1", n, None, 1024, PlainSample, NotAnArchive, TRUE,
      Cfg(<< >>, a, f, TextMimes, {}, <<0>>)) :
     n \in {NameATxt, NameUpperTxt, NamePdf, NameNoExt, << >>},
     a \in {{}, {ExtTxt}, {ExtTxtUpper}, {ExtTxt, ExtPdf}},
     f \in {{}, {ExtTxt}, {ExtPdf}}}

MimeCases ==
  {In("t1", NameATxt, ct, 1024, PlainSample, NotAnArchive, TRUE,
      Cfg(<< >>, {ExtTxt}, {}, a, f, <<0>>)) :
     ct \in {None, "text/plain", "TEXT/PLAIN", "image/png"},
     a \in {{}, {"text/plain"}, {"TEXT/PLAIN", "image/png"}},
     f \in {{}, {"text/plain"}}}

ZipCases ==
  {In("t1", NameZip, "application/zip", len, ZipSample, a, TRUE,
      Cfg(<< >>, {ExtZip}, {}, {"application/zip"}, {}, m)) :
     len \in {600, ChunkSize + 600}, a \in Archives,
     m \in {<< >>} \cup {<<d>> : d \in (-1)..MaxNest}}

SniffCases ==
  {In("t1", n, ct, 1024, sm, NotAnArchive, TRUE, OpenCfg) :
     n \in {NameATxt, NamePdf, NamePng},
     ct \in {None, "text/plain", "application/pdf", "image/png"},
     sm \in Samples}

\* Inputs that break several rules of the configuration at once.
OrderCases ==
  {In("t1", n, ct, len, PlainSample, ZipChain(1, "zip"), TRUE, Cfg(<<1>>, a, f, am, fm, <<0>>)) :
     n \in {NameATxt, NameZip}, ct \in {"text/plain", "image/png"}, len \in {0, 1024, 2049},
     a \in {{}, {ExtTxt, ExtZip}}, f \in {{}, {ExtTxt, ExtZip}},
     am \in {{}, {"text/plain"}}, fm \in {{}, {"text/plain", "image/png"}}}

SingleInputs ==
  SizeCases \cup ExtCases \cup MimeCases \cup ZipCases \cup SniffCases \cup OrderCases

ConcurrentInputs ==
  {In("t1", NameATxt, "text/plain", 5, PlainSample, NotAnArchive, TRUE, SmallCfg),
   In("t1", NameATxt, "text/plain", 5, PlainSample, NotAnArchive, FALSE, SmallCfg),
   In("t1", NameBTxt, "text/plain", 5, PlainSample, NotAnArchive, TRUE, SmallCfg),
   In("t1", NameATxt, "text/plain", 1025, PlainSample, NotAnArchive, TRUE, SmallCfg),
   In("t1", NameATxt, "text/plain", 0, PlainSample, NotAnArchive, TRUE, SmallCfg),
   In("t1", NameATxt, "text/plain", 5, PdfSample, NotAnArchive, TRUE, SmallCfg),
   In("t2", NameATxt, "text/plain", 5, PlainSample, NotAnArchive, TRUE, SmallCfg)}

NoInput == In("", << >>, None, 0, PlainSample, NotAnArchive, FALSE, OpenCfg)

\* -------------------------------------------------------------- state
VARIABLES
  pc,              \* where each upload_file call stands
  inp,             \* its arguments
  nx_result,       \* what its SET NX on the lock key came to
  upload_lock,     \* the lock key _check_concurrent_upload returned, or NoLock
  release_error,   \* whether its redis.delete of the lock key raised
  cache_error,     \* which cache deletion of its invalidation raised, if one did
  file_id,         \* the file id it generated (0: none yet)
  dst_path,        \* its destination path, or NoPath
  size,            \* bytes it has handed to the destination so far
  media_type,      \* its media_type local
  response,        \* what the caller gets: [status, detail]
  redisLocks,      \* upload:lock:* keys in the cache, each with the call that set it
  rateCount,       \* rate_limit:upload:<tenant>:<window> counters in the cache
  filesListCache,  \* per tenant: {} (no entry) or {the cached list of file ids}
  disk,            \* path -> bytes of the file visible at that path
  records,         \* rows of the files table
  nextFileId       \* stands for uuid4: ids are never repeated

\* State of the tenant-code service (file_service/services.py, crud.py).
VARIABLES
  tenants,         \* rows of the tenants table, by tenant code
  files,           \* rows of its files table
  storage,         \* file_path -> the upload whose bytes are at that path
  now,             \* datetime.utcnow(), in seconds
  svc_pc,          \* where each FileService.upload_file call stands
  svc_in,          \* its arguments
  svc_snapshot,    \* the usage it read when it checked the quotas
  svc_file_path,   \* the path it saved its bytes at, or NoPath
  svc_response,    \* what the caller gets: [status, detail]
  nextRowId,       \* stands for uuid4, the default of File.id
  liveCount,       \* per tenant: rows created and not deleted since, counted as they happen
  liveBytes        \* per tenant: their sizes, summed as they happen

uploadVars == <<pc, inp, nx_result, upload_lock, release_error, cache_error, file_id, dst_path, size,
                media_type, response, redisLocks, rateCount, filesListCache, disk, records,
                nextFileId>>

legacyVars == <<tenants, files, storage, now, svc_pc, svc_in, svc_snapshot, svc_file_path,
                svc_response, nextRowId, liveCount, liveBytes>>

\* State of the operations on committed FileRecords (get_file, list_files,
\* update_file, delete_file of services/file_service.py).
VARIABLES
  fileTable,       \* rows of cf_filerepo_file, with every column
  fileStore,       \* paths of the files on disk
  detailCache,     \* the files:detail:<tenant>:<file_id> keys that hold a cached dict
  listCache,       \* files:list:<tenant>: {} (no entry) or {the cached list of file ids}
  last,            \* the latest of these calls and what it answered
  list_call        \* the list_files call between its read of the store and its cache write

recordVars == <<fileTable, fileStore, detailCache, listCache, last, list_call>>

\* State of one run of the Zip Depth Inspector (_validate_zip_depth).
VARIABLES
  zip_stack,       \* its activations, outermost first: [archive, max_depth, index, temp_path]
  zip_signal,      \* "run", or how the innermost activation ended: "ok" or the 400 it raised
  zip_result,      \* how the outermost activation ended ("none": not yet)
  temp_dir,        \* the nested_zip_<uuid>.zip files in tempfile.gettempdir()
  zip_log          \* TRUE once "Error validating ZIP depth" was logged

zipVars == <<zip_stack, zip_signal, zip_result, temp_dir, zip_log>>

\* Calls of sanitize_filename on a name, each on the result of the one before.
VARIABLES
  san_name,        \* the declared name, then what the last call returned
  san_given,       \* what the last call was given
  san_calls        \* how many calls were made

sanVars == <<san_name, san_given, san_calls>>

vars == <<uploadVars, legacyVars, recordVars, zipVars, sanVars>>

NoLock == << >>
NoPath == << >>
NoResponse == [status |-> "none", detail |-> ""]
EmptyMap == [x \in {} |-> 0]

Upd(f, c, v) == [f EXCEPT ![c] = v]
Put(m, k, v) == [x \in DOMAIN m \cup {k} |-> IF x = k THEN v ELSE m[x]]
Drop(m, k) == [x \in DOMAIN m \ {k} |-> m[x]]

\* Variant: one lock key per tenant.
LockKeyPerTenant(tenant, filename) == <<tenant, << >>>>

\* upload:lock:<tenant_id>:<md5 of the declared filename>; md5 is taken to be
\* collision-free on the names of the model.
LockKey(tenant, filename) == <<tenant, FilenameOrDefault(filename)>>

SafeName(c) == SanitizeFilename(FilenameOrDefault(inp[c].filename))
Ext(c) == NormalizeExtension(SafeName(c))

UploadInit(n) ==
  /\ pc = [c \in Calls |-> "idle"]
  /\ inp = [c \in Calls |-> NoInput]
  /\ nx_result = [c \in Calls |-> "none"]
  /\ upload_lock = [c \in Calls |-> NoLock]
  /\ release_error = [c \in Calls |-> FALSE]
  /\ cache_error = [c \in Calls |-> "none"]
  /\ file_id = [c \in Calls |-> 0]
  /\ dst_path = [c \in Calls |-> NoPath]
  /\ size = [c \in Calls |-> 0]
  /\ media_type = [c \in Calls |-> ""]
  /\ response = [c \in Calls |-> NoResponse]
  /\ redisLocks = EmptyMap
  /\ rateCount = [t \in Tenants |-> n]
  /\ filesListCache = [t \in Tenants |-> {{}}]
  /\ disk = EmptyMap
  /\ records = {}
  /\ nextFileId = 1

\* A row of the tenants table; the optional integers are << >> (NULL) or <<n>>.
TenantRow(storage_quota_bytes, file_count_limit) ==
  [storage_quota_bytes |-> storage_quota_bytes, file_count_limit |-> file_count_limit]

Unlimited == TenantRow(<< >>, << >>)
NoUpload == [tenant_code |-> "", filename |-> << >>, file_size |-> 0]
NoSnapshot == [file_count |-> {}, total_storage_bytes |-> {}]

ServiceInit(row) ==
  /\ tenants = [t \in Tenants |-> IF t = "t1" THEN row ELSE Unlimited]
  /\ files = {}
  /\ storage = EmptyMap
  /\ now = 0
  /\ svc_pc = [c \in Calls |-> "idle"]
  /\ svc_in = [c \in Calls |-> NoUpload]
  /\ svc_snapshot = [c \in Calls |-> NoSnapshot]
  /\ svc_file_path = [c \in Calls |-> NoPath]
  /\ svc_response = [c \in Calls |-> NoResponse]
  /\ nextRowId = 1
  /\ liveCount = [t \in Tenants |-> 0]
  /\ liveBytes = [t \in Tenants |-> 0]

NoCall == [op |-> "none", status |-> "none"]

NoListCall == [stage |-> "idle", tenant_id |-> "", files |-> {}, redis_given |-> FALSE]

RecordsInit(rows) ==
  /\ fileTable = rows
  /\ fileStore = {r.file_path : r \in rows}
  /\ detailCache = {}
  /\ listCache = [t \in Tenants |-> {}]
  /\ last = NoCall
  /\ list_call = NoListCall

ZipInit ==
  /\ zip_stack = << >>
  /\ zip_signal = "run"
  /\ zip_result = "none"
  /\ temp_dir = {}
  /\ zip_log = FALSE

SanitizeInit(names) ==
  /\ san_name \in names
  /\ san_given = << >>
  /\ san_calls = 0

Init ==
  /\ \E n \in {0, UploadMaxRequests - 1, UploadMaxRequests} : UploadInit(n)
  /\ ServiceInit(Unlimited)
  /\ RecordsInit({})
  /\ ZipInit
  /\ SanitizeInit({<< >>})

\* The caller invokes upload_file(...).
Begin(c, i) ==
  /\ pc[c] = "idle"
  /\ pc' = Upd(pc, c, "rate_get")
  /\ inp' = Upd(inp, c, i)
  /\ UNCHANGED <<nx_result, upload_lock, release_error, cache_error, file_id, dst_path, size,
                 media_type, response, redisLocks, rateCount, filesListCache, disk,
                 records, nextFileId>>
  /\ UNCHANGED <<legacyVars, recordVars, zipVars, sanVars>>

StartUpload(c) == \E i \in ConcurrentInputs : Begin(c, i)

StartSingle == \E i \in SingleInputs : Begin(1, i)

\* check_rate_limit up to its redis.get: 429 at the limit; a cache error lets
\* the request through.
CheckRateLimitGet(c) ==
  /\ pc[c] = "rate_get"
  /\ \E reachable \in BOOLEAN :
       IF reachable /\ rateCount[inp[c].tenant] >= UploadMaxRequests
         THEN /\ pc' = Upd(pc, c, "done")
              /\ response' = Upd(response, c, [status |-> "429", detail |-> "Rate limit exceeded"])
         ELSE /\ pc' = Upd(pc, c, IF reachable THEN "rate_incr" ELSE "lock")
              /\ UNCHANGED response
  /\ UNCHANGED <<inp, nx_result, upload_lock, release_error, cache_error, file_id, dst_path, size,
                 media_type, redisLocks, rateCount, filesListCache, disk, records,
                 nextFileId>>
  /\ UNCHANGED <<legacyVars, recordVars, zipVars, sanVars>>

\* check_rate_limit from redis.incr on
CheckRateLimitIncr(c) ==
  /\ pc[c] = "rate_incr"
  /\ \E reachable \in BOOLEAN :
       rateCount' = IF reachable
                      THEN [rateCount EXCEPT ![inp[c].tenant] = @ + 1]
                      ELSE rateCount
  /\ pc' = Upd(pc, c, "lock")
  /\ UNCHANGED <<inp, nx_result, upload_lock, release_error, cache_error, file_id, dst_path, size,
                 media_type, response, redisLocks, filesListCache, disk, records,
                 nextFileId>>
  /\ UNCHANGED <<legacyVars, recordVars, zipVars, sanVars>>

\* What redis.set(upload_key, "1", ex=30, nx=True) comes to.
LockAttempt(redis_given, reachable, present) ==
  IF ~redis_given THEN "noredis"
  ELSE IF ~reachable THEN "error"
  ELSE IF present THEN "busy"
  ELSE "acquired"

\* What _check_concurrent_upload hands back to upload_file for that outcome:
\* the 409 it raises when the key is present is raised inside its own try and
\* caught by its `except Exception`, which returns None.
LockReturned(attempt, key) ==
  [raised |-> FALSE, lock |-> IF attempt = "acquired" THEN key ELSE NoLock]

CheckConcurrentUpload(c) ==
  /\ pc[c] = "lock"
  /\ \E reachable \in BOOLEAN :
       LET key == LockKey(inp[c].tenant, inp[c].filename)
           attempt == LockAttempt(inp[c].redis, reachable, key \in DOMAIN redisLocks)
           ret == LockReturned(attempt, key)
       IN /\ nx_result' = Upd(nx_result, c, attempt)
          /\ redisLocks' = IF attempt = "acquired" THEN Put(redisLocks, key, c) ELSE redisLocks
          /\ IF ret.raised
               THEN /\ pc' = Upd(pc, c, "done")
                    /\ response' = Upd(response, c, [status |-> "409", detail |-> "Same file is already being uploaded"])
                    /\ UNCHANGED upload_lock
               ELSE /\ pc' = Upd(pc, c, "open")
                    /\ upload_lock' = Upd(upload_lock, c, ret.lock)
                    /\ UNCHANGED response
  /\ UNCHANGED <<inp, release_error, cache_error, file_id, dst_path, size, media_type, rateCount,
                 filesListCache, disk, records, nextFileId>>
  /\ UNCHANGED <<legacyVars, recordVars, zipVars, sanVars>>

\* Variant: the key is set without an expiry.
ExpiredNever(locks, k) == locks

\* The keys of the cache once the 30 s given with ex=30 are over for key k.
Expired(locks, k) == Drop(locks, k)

\* TTL of 30 s on the lock key: the cache drops it.
LockExpire ==
  \E k \in DOMAIN redisLocks :
    /\ redisLocks' = Expired(redisLocks, k)
    /\ UNCHANGED <<pc, inp, nx_result, upload_lock, release_error, cache_error, file_id, dst_path,
                   size, media_type, response, rateCount, filesListCache, disk, records,
                   nextFileId>>
    /\ UNCHANGED <<legacyVars, recordVars, zipVars, sanVars>>

\* Variant: the whole of what is left is taken, whatever the chunk size.
MinTakesAll(a, b) == b

Min(a, b) == IF a < b THEN a ELSE b

\* The except branch of upload_file: os.remove(dst_path) if the path exists.
\* (delete_file_path, on the per-chunk failure path, comes to the same.)
\* Removing a file the call itself created is taken to succeed.
CleanedDisk(d, path) == IF path # NoPath /\ path \in DOMAIN d THEN Drop(d, path) ELSE d

\* Bytes of the destination visible on disk after out.write(chunk): the file is
\* opened buffered, so a full 1 MiB chunk is written through, while a shorter
\* (last) chunk either stays in the writer's buffer or is written through,
\* depending on the buffer size of the build.
VisibleAfterWrite(visible_before, chunk_len, written) ==
  IF chunk_len = ChunkSize THEN {written} ELSE {visible_before, written}

\* What zipfile finds at the destination when `visible` bytes of the stream are
\* on disk: the archive itself once all its bytes are there, a truncated file
\* (no end-of-central-directory record) before.
ArchiveAt(c, visible) ==
  IF visible = inp[c].length THEN inp[c].archive ELSE TruncatedArchive

Error500 == [status |-> "500", detail |-> "Internal Server Error"]
\* Variant: a validation failure answered with 422.
Error422(detail) == [status |-> "422", detail |-> detail]

Error400(detail) == [status |-> "400", detail |-> detail]

\* From "Generate file id and destination path" to aiofiles.open.
OpenDestination(c) ==
  /\ pc[c] = "open"
  /\ file_id' = Upd(file_id, c, nextFileId)
  /\ nextFileId' = nextFileId + 1
  /\ \E io \in {"ok", "oserror"} :
       IF io = "ok"
         THEN LET path == GenerateFilePath(inp[c].tenant, nextFileId, SafeName(c))
              IN /\ dst_path' = Upd(dst_path, c, path)
                 /\ media_type' = Upd(media_type, c, DetectMime(SafeName(c), inp[c].content_type))
                 /\ disk' = Put(disk, path, 0)
                 /\ pc' = Upd(pc, c, "stream")
                 /\ UNCHANGED response
         ELSE /\ response' = Upd(response, c, Error500)
              /\ pc' = Upd(pc, c, "release")
              /\ UNCHANGED <<dst_path, media_type, disk>>
  /\ UNCHANGED <<inp, nx_result, upload_lock, release_error, cache_error, size, redisLocks, rateCount,
                 filesListCache, records>>
  /\ UNCHANGED <<legacyVars, recordVars, zipVars, sanVars>>

\* One turn of the write loop: read a chunk, write it, validate the running
\* total; at end of stream, leave the `async with` (the file is closed and
\* flushed).
StreamChunk(c) ==
  /\ pc[c] = "stream"
  /\ LET chunk == Min(ChunkSize, inp[c].length - size[c])
         path == dst_path[c]
     IN IF chunk = 0
          THEN /\ disk' = Put(disk, path, size[c])
               /\ pc' = Upd(pc, c, "validate")
               /\ UNCHANGED <<size, response>>
          ELSE \E io \in {"ok", "oserror"} :
               \E visible \in VisibleAfterWrite(disk[path], chunk, size[c] + chunk) :
                 LET v == ValidateAgainstConfig(inp[c].config, Ext(c), media_type[c],
                                                size[c] + chunk, ArchiveAt(c, visible))
                 IN IF io = "oserror"
                      THEN /\ disk' = CleanedDisk(disk, path)
                           /\ response' = Upd(response, c, Error500)
                           /\ pc' = Upd(pc, c, "release")
                           /\ UNCHANGED size
                      ELSE IF v # "ok"
                      THEN /\ disk' = CleanedDisk(disk, path)
                           /\ response' = Upd(response, c, Error400(v))
                           /\ pc' = Upd(pc, c, "release")
                           /\ size' = Upd(size, c, size[c] + chunk)
                      ELSE /\ disk' = Put(disk, path, visible)
                           /\ size' = Upd(size, c, size[c] + chunk)
                           /\ UNCHANGED <<pc, response>>
  /\ UNCHANGED <<inp, nx_result, upload_lock, release_error, cache_error, file_id, dst_path,
                 media_type, redisLocks, rateCount, filesListCache, records, nextFileId>>
  /\ UNCHANGED <<legacyVars, recordVars, zipVars, sanVars>>

\* Final validation and content reconciliation on the closed file.
ValidateAndReconcile(c) ==
  /\ pc[c] = "validate"
  /\ LET v == ValidateAgainstConfig(inp[c].config, Ext(c), media_type[c], size[c],
                                    ArchiveAt(c, disk[dst_path[c]]))
         r == ValidateFileContentVsExtension(inp[c].sample, Ext(c), media_type[c])
     IN IF v # "ok"
          THEN /\ disk' = CleanedDisk(disk, dst_path[c])
               /\ response' = Upd(response, c, Error400(v))
               /\ pc' = Upd(pc, c, "release")
               /\ UNCHANGED media_type
          ELSE IF r.rejected
          THEN /\ disk' = CleanedDisk(disk, dst_path[c])
               /\ response' = Upd(response, c, Error400("File extension does not match actual file type"))
               /\ pc' = Upd(pc, c, "release")
               /\ UNCHANGED media_type
          ELSE /\ media_type' = Upd(media_type, c, r.mime)
               /\ pc' = Upd(pc, c, "create")
               /\ UNCHANGED <<disk, response>>
  /\ UNCHANGED <<inp, nx_result, upload_lock, release_error, cache_error, file_id, dst_path, size,
                 redisLocks, rateCount, filesListCache, records, nextFileId>>
  /\ UNCHANGED <<legacyVars, recordVars, zipVars, sanVars>>

\* Variant: the record is keyed by a constant instead of the generated file id.
NewRecordSharedId(c) ==
  [tenant_id |-> inp[c].tenant, file_id |-> 1, file_name |-> SafeName(c),
   file_path |-> dst_path[c], media_type |-> media_type[c], file_size_bytes |-> size[c]]

NewRecord(c) ==
  [tenant_id |-> inp[c].tenant, file_id |-> file_id[c], file_name |-> SafeName(c),
   file_path |-> dst_path[c], media_type |-> media_type[c], file_size_bytes |-> size[c]]

\* Rows of the table after FileCRUD.create: db.add, db.commit, db.refresh.
\* db tells where the store fails, if it does.
RowsAfterCreate(rows, rec, db) == IF db = "commit_fails" THEN rows ELSE rows \cup {rec}

CreateRecord(c) ==
  /\ pc[c] = "create"
  /\ \E db \in {"ok", "commit_fails", "refresh_fails"} :
       /\ records' = RowsAfterCreate(records, NewRecord(c), db)
       /\ IF db = "ok"
            THEN /\ pc' = Upd(pc, c, "invalidate")
                 /\ UNCHANGED <<disk, response>>
            ELSE /\ disk' = CleanedDisk(disk, dst_path[c])
                 /\ response' = Upd(response, c, Error500)
                 /\ pc' = Upd(pc, c, "release")
  /\ UNCHANGED <<inp, nx_result, upload_lock, release_error, cache_error, file_id, dst_path, size,
                 media_type, redisLocks, rateCount, filesListCache, nextFileId>>
  /\ UNCHANGED <<legacyVars, recordVars, zipVars, sanVars>>

\* What upload_file answers once the invalidation block (try ... except
\* Exception: logger.exception) is over, whichever deletion raised.
\* Variant: a deletion that raises fails the upload.
AfterInvalidationFatal(outcome) ==
  IF outcome = "none" THEN [status |-> "201", detail |-> ""] ELSE Error500

AfterInvalidation(outcome) == [status |-> "201", detail |-> ""]

\* The two deletions, in order: cache_delete_files_list, then
\* cache_delete_file_detail; the first that raises ends the block.
InvalidationOutcomes(redis_given) ==
  IF redis_given THEN {"none", "files_list", "file_detail"} ELSE {"none"}

\* Cache invalidation after the record is stored, then the return value.
InvalidateCaches(c) ==
  /\ pc[c] = "invalidate"
  /\ \E outcome \in InvalidationOutcomes(inp[c].redis) :
       /\ filesListCache' = IF inp[c].redis /\ outcome # "files_list"
                               THEN [filesListCache EXCEPT ![inp[c].tenant] = {}]
                               ELSE filesListCache
       /\ cache_error' = Upd(cache_error, c, outcome)
       /\ response' = Upd(response, c, AfterInvalidation(outcome))
  /\ pc' = Upd(pc, c, "release")
  /\ UNCHANGED <<inp, nx_result, upload_lock, release_error, file_id, dst_path, size,
                 media_type, redisLocks, rateCount, disk, records, nextFileId>>
  /\ UNCHANGED <<legacyVars, recordVars, zipVars, sanVars>>

\* Variant: the release leaves the key in the cache.
LocksAfterReleaseKept(locks, lock_key, reachable) == locks

\* redis.delete(lock_key)
LocksAfterRelease(locks, lock_key, reachable) ==
  IF reachable THEN Drop(locks, lock_key) ELSE locks

\* The finally clause: _release_upload_lock, then the caller has the outcome.
ReleaseUploadLock(c) ==
  /\ pc[c] = "release"
  /\ IF inp[c].redis /\ upload_lock[c] # NoLock
       THEN \E reachable \in BOOLEAN :
              /\ redisLocks' = LocksAfterRelease(redisLocks, upload_lock[c], reachable)
              /\ release_error' = Upd(release_error, c, ~reachable)
       ELSE UNCHANGED <<redisLocks, release_error>>
  /\ pc' = Upd(pc, c, "done")
  /\ UNCHANGED <<inp, nx_result, upload_lock, cache_error, file_id, dst_path, size, media_type,
                 response, rateCount, filesListCache, disk, records, nextFileId>>
  /\ UNCHANGED <<legacyVars, recordVars, zipVars, sanVars>>

Step(c) ==
  \/ CheckRateLimitGet(c)
  \/ CheckRateLimitIncr(c)
  \/ CheckConcurrentUpload(c)
  \/ OpenDestination(c)
  \/ StreamChunk(c)
  \/ ValidateAndReconcile(c)
  \/ CreateRecord(c)
  \/ InvalidateCaches(c)
  \/ ReleaseUploadLock(c)

\* Concurrent upload_file calls sharing one store, one cache and one disk.
Next == (\E c \in Calls : StartUpload(c) \/ Step(c)) \/ LockExpire

Spec == Init /\ [][Next]_vars

\* One upload_file call, its arguments ranging over every case of the
\* validation rules.
NextSingle == StartSingle \/ Step(1) \/ LockExpire

SpecSingle == Init /\ [][NextSingle]_vars

\* The task running upload_file is cancelled (the caller went away) while it
\* is suspended in the write loop (file.read, out.write) or in
\* file_crud.create. asyncio.CancelledError is a BaseException: it leaves the
\* `async with` (the destination is closed, what was written stays), passes the
\* `except Exception` clause without entering it, and reaches the finally
\* clause. There `await _release_upload_lock(...)` runs under asyncio, and is
\* cancelled again at its first await when the cancellation comes from a
\* cancel scope of anyio. A cancellation in file_crud.create falls before or
\* after the COMMIT took effect.
Cancel(c) ==
  /\ pc[c] \in {"stream", "create"}
  /\ disk' = Put(disk, dst_path[c], IF pc[c] = "stream" THEN size[c] ELSE disk[dst_path[c]])
  /\ \E committed \in BOOLEAN :
       records' = IF pc[c] = "create" /\ committed
                    THEN RowsAfterCreate(records, NewRecord(c), "refresh_fails")
                    ELSE records
  /\ \E release_runs \in BOOLEAN, reachable \in BOOLEAN :
       IF release_runs /\ inp[c].redis /\ upload_lock[c] # NoLock
         THEN /\ redisLocks' = LocksAfterRelease(redisLocks, upload_lock[c], reachable)
              /\ release_error' = Upd(release_error, c, ~reachable)
         ELSE UNCHANGED <<redisLocks, release_error>>
  /\ response' = Upd(response, c, [status |-> "cancelled", detail |-> ""])
  /\ pc' = Upd(pc, c, "done")
  /\ UNCHANGED <<inp, nx_result, upload_lock, cache_error, file_id, dst_path, size,
                 media_type, rateCount, filesListCache, nextFileId>>
  /\ UNCHANGED <<legacyVars, recordVars, zipVars, sanVars>>

\* Two upload_file calls for the same tenant and filename, with the cache
\* keeping its promise on expiry: a key set with ex=30 does not outlive its
\* 30 seconds. Nothing is assumed of the calls themselves: one that stops
\* taking steps has crashed.
LockInputs == {In("t1", NameATxt, "text/plain", 5, PlainSample, NotAnArchive, TRUE, SmallCfg)}
LockKeys == {LockKey(i.tenant, i.filename) : i \in LockInputs}

NextLock == (\E c \in Calls : (\E i \in LockInputs : Begin(c, i)) \/ Step(c)) \/ LockExpire

InitLock == UploadInit(0) /\ ServiceInit(Unlimited) /\ RecordsInit({}) /\ ZipInit
  /\ SanitizeInit({<< >>})

SpecLock ==
  /\ InitLock
  /\ [][NextLock]_vars
  /\ \A k \in LockKeys : WF_vars(LockExpire /\ k \notin DOMAIN redisLocks')

\* One upload_file call that may be cancelled.
NextCancel == NextSingle \/ Cancel(1)

SpecCancel == Init /\ [][NextCancel]_vars

\* ------------------------------------------------- sanitize_filename
MaxTyped == 4
NameChars == {"a", ".", "/", "\\", "NUL"}

RECURSIVE NamesUpTo(_)
NamesUpTo(n) ==
  IF n = 0 THEN {<< >>}
  ELSE LET shorter == NamesUpTo(n - 1)
       IN shorter \cup {Append(s, ch) : s \in shorter, ch \in NameChars}

\* MaxNameLen characters that the cleaning leaves alone
Filler == [i \in 1..MaxNameLen |-> "a"]

\* Declared names: every name of up to MaxTyped characters, and names longer
\* than MaxNameLen that begin and end with such characters.
DeclaredNames ==
  NamesUpTo(MaxTyped)
    \cup {head \o Filler \o tail : head \in NamesUpTo(2), tail \in NamesUpTo(1)}

sanitize_filename ==
  /\ san_calls < 2
  /\ san_given' = san_name
  /\ san_name' = SanitizeFilename(san_name)
  /\ san_calls' = san_calls + 1
  /\ UNCHANGED <<uploadVars, legacyVars, recordVars, zipVars>>

InitSanitize ==
  /\ UploadInit(0) /\ ServiceInit(Unlimited) /\ RecordsInit({}) /\ ZipInit
  /\ SanitizeInit(DeclaredNames)

NextSanitize == sanitize_filename

\* sanitize_filename applied to a declared name, then to its own result.
SpecSanitize == InitSanitize /\ [][NextSanitize]_vars

\* ------------------------------- the Zip Depth Inspector, step by step
\* Variant: the temporary file is removed only when the nested inspection
\* returned.
RemoveTempOnReturn(temps, temp_path, raised) ==
  IF raised THEN temps ELSE temps \ {temp_path}

\* The finally clause around the nested inspection: os.remove(temp_path) if
\* the path exists, whether the inspection returned or raised. Removing a
\* file the inspector wrote itself is taken to succeed.
RemoveTemp(temps, temp_path, raised) == temps \ {temp_path}

\* Variant: an unexpected exception fails the inspection too.
ExceptClauseFailClosed(exception) ==
  IF exception = "BadZipFile" THEN "Invalid ZIP file format"
  ELSE IF exception = "Exception" THEN "Invalid ZIP file format"
  ELSE exception

\* The except clauses of _validate_zip_depth: BadZipFile becomes a 400, an
\* HTTPException (given by its detail) is raised again, any other exception is
\* logged and the call returns.
ExceptClause(exception) ==
  IF exception = "BadZipFile" THEN "Invalid ZIP file format"
  ELSE IF exception = "Exception" THEN "ok"
  ELSE exception

Activation(archive, max_depth) ==
  [archive |-> archive, max_depth |-> max_depth, index |-> 1, temp_path |-> << >>]

InspectorDepths == (-1)..MaxNest

\* _validate_zip_depth(file_path, max_depth) is called on a stored archive.
InspectStart(a, max_depth) ==
  /\ zip_stack = << >> /\ zip_result = "none"
  /\ zip_stack' = <<Activation(a, max_depth)>>
  /\ UNCHANGED <<zip_signal, zip_result, temp_dir, zip_log>>
  /\ UNCHANGED <<uploadVars, legacyVars, recordVars, sanVars>>

\* The innermost activation runs up to its next nested archive: it returns
\* (max_depth < 0, no entry left, or an exception other than BadZipFile and
\* HTTPException, which is logged and swallowed), raises 400 (not a zip file,
\* or a nested archive at max_depth 0), or extracts the entry to a temporary
\* file and calls itself on it. An extraction that fails does so before or
\* after the temporary file was created.
InspectScan ==
  /\ zip_stack # << >> /\ zip_signal = "run"
  /\ LET n == Len(zip_stack)
         f == zip_stack[n]
         temp_path == <<n, f.index>>
     IN IF f.max_depth < 0
          THEN zip_signal' = "ok" /\ UNCHANGED <<zip_stack, temp_dir, zip_log>>
          ELSE IF f.archive.kind = "unreadable"
          THEN /\ zip_signal' = ExceptClause("Exception")
               /\ zip_log' = TRUE
               /\ UNCHANGED <<zip_stack, temp_dir>>
          ELSE IF f.archive.kind = "bad"
          THEN /\ zip_signal' = ExceptClause("BadZipFile")
               /\ UNCHANGED <<zip_stack, temp_dir, zip_log>>
          ELSE IF f.index > Len(f.archive.nested)
          THEN zip_signal' = "ok" /\ UNCHANGED <<zip_stack, temp_dir, zip_log>>
          ELSE IF f.max_depth = 0
          THEN /\ zip_signal' = ExceptClause("ZIP files with nested ZIPs are not allowed")
               /\ UNCHANGED <<zip_stack, temp_dir, zip_log>>
          ELSE \E extraction \in {"ok", "fails_before_open", "fails_in_write"} :
                 IF extraction = "ok"
                   THEN /\ temp_dir' = temp_dir \cup {temp_path}
                        /\ zip_stack' = Append([zip_stack EXCEPT ![n].temp_path = temp_path],
                                                Activation(f.archive.nested[f.index],
                                                           f.max_depth - 1))
                        /\ UNCHANGED <<zip_signal, zip_log>>
                   ELSE /\ temp_dir' = RemoveTemp(
                               IF extraction = "fails_in_write"
                                 THEN temp_dir \cup {temp_path} ELSE temp_dir,
                               temp_path, TRUE)
                        /\ zip_signal' = ExceptClause("Exception")
                        /\ zip_log' = TRUE
                        /\ UNCHANGED zip_stack
  /\ UNCHANGED zip_result
  /\ UNCHANGED <<uploadVars, legacyVars, recordVars, sanVars>>

\* A nested inspection ended: its caller's finally clause removes the
\* temporary file; a 400 goes on to the caller's caller (except HTTPException:
\* raise), a return lets the caller go on with its next entry.
InspectFinally ==
  /\ Len(zip_stack) > 1 /\ zip_signal # "run"
  /\ LET n == Len(zip_stack) - 1
         caller == zip_stack[n]
         raised == zip_signal # "ok"
     IN /\ temp_dir' = RemoveTemp(temp_dir, caller.temp_path, raised)
        /\ zip_stack' = [SubSeq(zip_stack, 1, n) EXCEPT ![n].index = @ + 1,
                                                        ![n].temp_path = << >>]
        /\ zip_signal' = IF raised THEN ExceptClause(zip_signal) ELSE "run"
  /\ UNCHANGED <<zip_result, zip_log>>
  /\ UNCHANGED <<uploadVars, legacyVars, recordVars, sanVars>>

\* The outermost activation ended: _validate_zip_depth returns or raises to
\* _validate_against_config.
InspectExit ==
  /\ Len(zip_stack) = 1 /\ zip_signal # "run"
  /\ zip_result' = zip_signal
  /\ zip_stack' = << >>
  /\ zip_signal' = "run"
  /\ UNCHANGED <<temp_dir, zip_log>>
  /\ UNCHANGED <<uploadVars, legacyVars, recordVars, sanVars>>

InitZip == UploadInit(0) /\ ServiceInit(Unlimited) /\ RecordsInit({}) /\ ZipInit
  /\ SanitizeInit({<< >>})

NextZip ==
  \/ \E a \in Archives, max_depth \in InspectorDepths : InspectStart(a, max_depth)
  \/ InspectScan
  \/ InspectFinally
  \/ InspectExit

\* One inspection of a stored archive, for every archive and every depth limit.
SpecZip == InitZip /\ [][NextZip]_vars

\* ----------------------------------------- tenant-code service (services.py)
MaxClock == 1
MaxFileSize == 104857600

\* `if x:` on an optional integer: NULL and 0 are both false
Truthy(opt) == opt # << >> /\ opt[1] # 0

\* hashlib.md5(original_filename).hexdigest()[:8], taken to be collision-free on
\* the names of the model
FileHash(original_filename) == <<"md5", original_filename>>

\* os.path.splitext(p)[0]
SplitExtRoot(p) == SubSeq(p, 1, Len(p) - Len(SplitExt(p)))

\* generate_unique_filename: f"{name}_{timestamp}_{file_hash}{ext}", the
\* timestamp being utcnow() to the second
GenerateUniqueFilename(original_filename, utcnow) ==
  [name |-> SplitExtRoot(original_filename), timestamp |-> utcnow,
   file_hash |-> FileHash(original_filename), ext |-> SplitExt(original_filename)]

\* generate_storage_path: storage_base_path/<tenant_code>/YYYY-MM; the runs of
\* the model stay within one month
GenerateStoragePath(tenant_code) == <<tenant_code>>

FilePath(tenant_code, unique_filename) == <<GenerateStoragePath(tenant_code), unique_filename>>

SumFileSize(rows) ==
  LET RECURSIVE Sum(_)
      Sum(S) == IF S = {} THEN 0
                ELSE LET r == CHOOSE x \in S : TRUE IN r.file_size + Sum(S \ {r})
  IN Sum(rows)

\* Variant: the aggregate counts soft-deleted rows too.
GetStatsWithDeleted(rows, tenant_id) ==
  LET counted == {r \in rows : r.tenant_id = tenant_id}
      tenant == tenants[tenant_id]
  IN [file_count |-> Cardinality(counted),
      total_storage_bytes |-> SumFileSize(counted),
      storage_quota_bytes |-> tenant.storage_quota_bytes,
      file_count_limit |-> tenant.file_count_limit,
      storage_usage_percentage |->
        IF Truthy(tenant.storage_quota_bytes)
          THEN <<[num |-> SumFileSize(counted) * 100, den |-> tenant.storage_quota_bytes[1]]>>
          ELSE << >>,
      file_count_usage_percentage |->
        IF Truthy(tenant.file_count_limit)
          THEN <<[num |-> Cardinality(counted) * 100, den |-> tenant.file_count_limit[1]]>>
          ELSE << >>]

\* TenantCRUD.get_stats: count and coalesce(sum(file_size), 0) over the rows
\* with File.tenant_id == tenant_id and File.is_deleted == False; a percentage
\* (x / quota) * 100 is kept as the fraction [num, den], << >> being None.
GetStats(rows, tenant_id) ==
  LET counted == {r \in rows : r.tenant_id = tenant_id /\ ~r.is_deleted}
      tenant == tenants[tenant_id]
  IN [file_count |-> Cardinality(counted),
      total_storage_bytes |-> SumFileSize(counted),
      storage_quota_bytes |-> tenant.storage_quota_bytes,
      file_count_limit |-> tenant.file_count_limit,
      storage_usage_percentage |->
        IF Truthy(tenant.storage_quota_bytes)
          THEN <<[num |-> SumFileSize(counted) * 100, den |-> tenant.storage_quota_bytes[1]]>>
          ELSE << >>,
      file_count_usage_percentage |->
        IF Truthy(tenant.file_count_limit)
          THEN <<[num |-> Cardinality(counted) * 100, den |-> tenant.file_count_limit[1]]>>
          ELSE << >>]

\* get_stats returns None when the query raises: {} is None, {stats} a result
StatsData(rows, tenant_id, db_ok) == IF db_ok THEN {GetStats(rows, tenant_id)} ELSE {}

\* Variant: usage exactly at the limit counts as over quota.
CheckTenantQuotasStrict(tenant_code, stats_data) ==
  IF tenant_code \notin DOMAIN tenants THEN [error |-> "Tenant not found"]
  ELSE IF stats_data = {} THEN [error |-> "Failed to get stats"]
  ELSE LET tenant == tenants[tenant_code]
           stats == CHOOSE x \in stats_data : TRUE
       IN [within_storage_quota |->
             ~(/\ Truthy(tenant.storage_quota_bytes)
               /\ stats.total_storage_bytes >= tenant.storage_quota_bytes[1]),
           within_file_count_quota |->
             ~(/\ Truthy(tenant.file_count_limit)
               /\ stats.file_count >= tenant.file_count_limit[1]),
           storage_usage_percentage |-> stats.storage_usage_percentage,
           file_count_usage_percentage |-> stats.file_count_usage_percentage]

\* TenantService.check_tenant_quotas
CheckTenantQuotas(tenant_code, stats_data) ==
  IF tenant_code \notin DOMAIN tenants THEN [error |-> "Tenant not found"]
  ELSE IF stats_data = {} THEN [error |-> "Failed to get stats"]
  ELSE LET tenant == tenants[tenant_code]
           stats == CHOOSE x \in stats_data : TRUE
       IN [within_storage_quota |->
             ~(/\ Truthy(tenant.storage_quota_bytes)
               /\ stats.total_storage_bytes > tenant.storage_quota_bytes[1]),
           within_file_count_quota |->
             ~(/\ Truthy(tenant.file_count_limit)
               /\ stats.file_count > tenant.file_count_limit[1]),
           storage_usage_percentage |-> stats.storage_usage_percentage,
           file_count_usage_percentage |-> stats.file_count_usage_percentage]

\* quota_status.get("within_file_count_quota", True)
WithinFileCountQuota(quota_status) ==
  IF "within_file_count_quota" \in DOMAIN quota_status
    THEN quota_status.within_file_count_quota
    ELSE TRUE

\* settings.allowed_extensions_list, as far as the names of the model go
AllowedExtensionsList == {ExtTxt, ExtPdf, ExtZip, ExtPng}

\* AsyncFileValidator.validate_file on names that are not archives
ValidateFile(filename, file_size) ==
  /\ file_size <= MaxFileSize
  /\ Lower(SplitExt(filename)) \in AllowedExtensionsList

SvcUpload(tenant_code, filename, file_size) ==
  [tenant_code |-> tenant_code, filename |-> filename, file_size |-> file_size]

SvcInputs ==
  {SvcUpload("t1", NameATxt, 4), SvcUpload("t1", NameATxt, 6),
   SvcUpload("t1", NameBTxt, 6), SvcUpload("t1", NameNoExt, 4),
   SvcUpload("t2", NameATxt, 4), SvcUpload("t0", NameATxt, 4)}

StorageQuotas == {<< >>, <<0>>, <<10>>}
FileCountLimits == {<< >>, <<0>>, <<1>>}

SvcError(code, detail) == [status |-> code, detail |-> detail]
SvcEnd(c, resp) ==
  /\ svc_response' = Upd(svc_response, c, resp)
  /\ svc_pc' = Upd(svc_pc, c, "done")

\* FileService.upload_file up to "Read file content": the tenant lookup and
\* the file-count check on check_tenant_quotas.
CheckQuotas(c) ==
  /\ svc_pc[c] = "idle"
  /\ \E i \in SvcInputs, db_ok \in BOOLEAN :
       /\ svc_in' = Upd(svc_in, c, i)
       /\ IF i.tenant_code \notin DOMAIN tenants
            THEN /\ SvcEnd(c, SvcError("404", "Tenant not found"))
                 /\ UNCHANGED svc_snapshot
            ELSE LET stats_data == StatsData(files, i.tenant_code, db_ok)
                     quota_status == CheckTenantQuotas(i.tenant_code, stats_data)
                 IN /\ svc_snapshot' =
                         Upd(svc_snapshot, c,
                             [NoSnapshot EXCEPT !.file_count = {st.file_count : st \in stats_data}])
                    /\ IF ~WithinFileCountQuota(quota_status)
                         THEN SvcEnd(c, SvcError("413", "File count quota exceeded"))
                         ELSE /\ svc_pc' = Upd(svc_pc, c, "read")
                              /\ UNCHANGED svc_response
  /\ UNCHANGED <<tenants, files, storage, now, svc_file_path, nextRowId, liveCount, liveBytes>>
  /\ UNCHANGED <<uploadVars, recordVars, zipVars, sanVars>>

\* Variant: the check looks at what is stored, not at what the upload adds.
StorageQuotaExceededStoredOnly(total_storage_bytes, file_size, storage_quota_bytes) ==
  total_storage_bytes > storage_quota_bytes

\* (stats_data["total_storage_bytes"] + file_size) > tenant.storage_quota_bytes
StorageQuotaExceeded(total_storage_bytes, file_size, storage_quota_bytes) ==
  total_storage_bytes + file_size > storage_quota_bytes

\* file.read(), then the storage check on a second get_stats.
CheckStorageQuota(c) ==
  /\ svc_pc[c] = "read"
  /\ LET tenant == tenants[svc_in[c].tenant_code]
     IN IF Truthy(tenant.storage_quota_bytes)
          THEN \E db_ok \in BOOLEAN :
                 LET stats_data == StatsData(files, svc_in[c].tenant_code, db_ok)
                 IN /\ svc_snapshot' =
                         Upd(svc_snapshot, c,
                             [svc_snapshot[c] EXCEPT
                                !.total_storage_bytes = {st.total_storage_bytes : st \in stats_data}])
                    /\ IF \E st \in stats_data :
                            StorageQuotaExceeded(st.total_storage_bytes, svc_in[c].file_size,
                                                 tenant.storage_quota_bytes[1])
                         THEN SvcEnd(c, SvcError("413", "Storage quota exceeded"))
                         ELSE /\ svc_pc' = Upd(svc_pc, c, "save")
                              /\ UNCHANGED svc_response
          ELSE /\ svc_pc' = Upd(svc_pc, c, "save")
               /\ UNCHANGED <<svc_snapshot, svc_response>>
  /\ UNCHANGED <<tenants, files, storage, now, svc_in, svc_file_path, nextRowId, liveCount,
                 liveBytes>>
  /\ UNCHANGED <<uploadVars, recordVars, zipVars, sanVars>>

\* Validation, generate_unique_filename, save_uploaded_file, mime type and hash.
SaveFile(c) ==
  /\ svc_pc[c] = "save"
  /\ IF ~ValidateFile(svc_in[c].filename, svc_in[c].file_size)
       THEN /\ SvcEnd(c, SvcError("400", "File validation failed"))
            /\ UNCHANGED <<storage, svc_file_path>>
       ELSE \E io \in {"ok", "oserror"} :
              IF io = "ok"
                THEN LET unique_filename == GenerateUniqueFilename(svc_in[c].filename, now)
                         file_path == FilePath(svc_in[c].tenant_code, unique_filename)
                     IN /\ storage' = Put(storage, file_path, c)
                        /\ svc_file_path' = Upd(svc_file_path, c, file_path)
                        /\ svc_pc' = Upd(svc_pc, c, "create")
                        /\ UNCHANGED svc_response
                ELSE /\ SvcEnd(c, SvcError("500", "Storage error"))
                     /\ UNCHANGED <<storage, svc_file_path>>
  /\ UNCHANGED <<tenants, files, now, svc_in, svc_snapshot, nextRowId, liveCount, liveBytes>>
  /\ UNCHANGED <<uploadVars, recordVars, zipVars, sanVars>>

\* The row FileCRUD.create stores; `upload` notes the call that saved the bytes.
FileRow(c) ==
  [id |-> nextRowId, tenant_id |-> svc_in[c].tenant_code,
   original_filename |-> svc_in[c].filename, file_path |-> svc_file_path[c],
   file_size |-> svc_in[c].file_size, is_deleted |-> FALSE, upload |-> c]

\* FileCRUD.create (crud.py): add, commit, refresh, then the cache write; an
\* error after the commit reaches upload_file with the row already stored.
CreateFile(c) ==
  /\ svc_pc[c] = "create"
  /\ \E db \in {"ok", "commit_fails", "cache_fails"} :
       /\ IF db = "commit_fails"
            THEN UNCHANGED <<files, liveCount, liveBytes>>
            ELSE /\ files' = files \cup {FileRow(c)}
                 /\ liveCount' = [liveCount EXCEPT ![svc_in[c].tenant_code] = @ + 1]
                 /\ liveBytes' = [liveBytes EXCEPT ![svc_in[c].tenant_code] = @ + svc_in[c].file_size]
       /\ SvcEnd(c, IF db = "ok" THEN [status |-> "201", detail |-> ""]
                    ELSE SvcError("500", "Failed to upload file"))
  /\ nextRowId' = nextRowId + 1
  /\ UNCHANGED <<tenants, storage, now, svc_in, svc_snapshot, svc_file_path>>
  /\ UNCHANGED <<uploadVars, recordVars, zipVars, sanVars>>

\* FileService.delete_file over FileCRUD.delete, for a row that exists and a
\* store that answers (a failure rolls back and changes nothing): the row is
\* removed or flagged, then the physical file is deleted.
DeleteFile ==
  \E r \in files, permanent \in BOOLEAN :
    /\ files' = IF permanent THEN files \ {r}
                ELSE (files \ {r}) \cup {[r EXCEPT !.is_deleted = TRUE]}
    /\ storage' = IF (permanent \/ ~r.is_deleted) /\ r.file_path \in DOMAIN storage
                    THEN Drop(storage, r.file_path)
                    ELSE storage
    /\ liveCount' = IF r.is_deleted THEN liveCount
                    ELSE [liveCount EXCEPT ![r.tenant_id] = @ - 1]
    /\ liveBytes' = IF r.is_deleted THEN liveBytes
                    ELSE [liveBytes EXCEPT ![r.tenant_id] = @ - r.file_size]
    /\ UNCHANGED <<tenants, now, svc_pc, svc_in, svc_snapshot, svc_file_path, svc_response,
                   nextRowId>>
    /\ UNCHANGED <<uploadVars, recordVars, zipVars, sanVars>>

\* A second passes on the clock.
Tick ==
  /\ now < MaxClock
  /\ now' = now + 1
  /\ UNCHANGED <<tenants, files, storage, svc_pc, svc_in, svc_snapshot, svc_file_path,
                 svc_response, nextRowId, liveCount, liveBytes>>
  /\ UNCHANGED <<uploadVars, recordVars, zipVars, sanVars>>

InitLegacy ==
  /\ UploadInit(0)
  /\ \E sq \in StorageQuotas, fl \in FileCountLimits : ServiceInit(TenantRow(sq, fl))
  /\ RecordsInit({})
  /\ ZipInit
  /\ SanitizeInit({<< >>})

NextLegacy ==
  \/ \E c \in Calls : CheckQuotas(c) \/ CheckStorageQuota(c) \/ SaveFile(c) \/ CreateFile(c)
  \/ DeleteFile
  \/ Tick

\* Concurrent FileService.upload_file calls and deletions on one store.
SpecLegacy == InitLegacy /\ [][NextLegacy]_vars

\* No other call is between its first and its last step.
Alone(c) == \A d \in Calls \ {c} : svc_pc[d] \in {"idle", "done"}

NextSequential ==
  \E c \in Calls :
    /\ Alone(c)
    /\ CheckQuotas(c) \/ CheckStorageQuota(c) \/ SaveFile(c) \/ CreateFile(c)

\* FileService.upload_file calls that run strictly one after another.
SpecSequential == InitLegacy /\ [][NextSequential]_vars

\* ------------------------- operations on committed FileRecords (file id path)
\* A row of cf_filerepo_file as upload_file leaves it. The optional columns
\* (tag, file_metadata) are << >> (NULL) or <<v>>; created_at and modified_at
\* are 0 at creation (server default NOW()).
CommittedFile(fid, tenant) ==
  [file_id |-> fid, tenant_id |-> tenant, file_name |-> SanitizeFilename(NameATxt),
   file_path |-> GenerateFilePath(tenant, fid, SanitizeFilename(NameATxt)),
   media_type |-> "text/plain", file_size_bytes |-> 5, tag |-> << >>,
   file_metadata |-> << >>, created_at |-> 0, modified_at |-> 0]

CommittedFiles == {CommittedFile(1, "t1"), CommittedFile(2, "t2")}
FileIds == {1, 2}
TagInputs == {<< >>, <<"a">>}
MetadataInputs == {<< >>, <<"m1">>}

\* Variant: the row is looked up by its file id alone.
GetByFileIdOnly(rows, tenant_id, fid) == {r \in rows : r.file_id = fid}

\* FileCRUD.get_by_id: the rows with that tenant and that file id ({}: None).
GetById(rows, tenant_id, fid) ==
  {r \in rows : r.tenant_id = tenant_id /\ r.file_id = fid}

\* Variant: the arguments are assigned whether or not they were supplied.
UpdateMutableAssignsNone(obj, tag, file_metadata) ==
  [obj EXCEPT !.tag = tag, !.file_metadata = file_metadata]

\* The assignments of FileCRUD.update_mutable as update_file calls it
\* (file_name is left at its default None).
UpdateMutable(obj, tag, file_metadata) ==
  [obj EXCEPT !.tag = IF tag # << >> THEN tag ELSE @,
              !.file_metadata = IF file_metadata # << >> THEN file_metadata ELSE @]

DetailKey(tenant_id, fid) == <<tenant_id, fid>>

\* What the invalidation block of update_file and delete_file can come to:
\* cache_delete_file_detail, then cache_delete_files_list, inside one try; the
\* first that raises ends the block.
DeleteOutcomes(redis_given) ==
  IF redis_given THEN {"none", "file_detail", "files_list"} ELSE {"none"}

DetailAfterInvalidation(cache, tenant_id, fid, redis_given, outcome) ==
  IF redis_given /\ outcome # "file_detail" THEN cache \ {DetailKey(tenant_id, fid)}
  ELSE cache

ListAfterInvalidation(cache, tenant_id, redis_given, outcome) ==
  IF redis_given /\ outcome = "none" THEN [cache EXCEPT ![tenant_id] = {}] ELSE cache

Answer(op, status) == [op |-> op, status |-> status]

\* get_file: the cache is read and ignored, the row fetched, the detail cached.
get_file(tenant_id, fid, redis_given) ==
  /\ \E db_ok \in BOOLEAN, cache_ok \in BOOLEAN :
       LET found == GetById(fileTable, tenant_id, fid)
       IN IF ~db_ok
            THEN /\ last' = Answer("get_file", "500")
                 /\ UNCHANGED detailCache
            ELSE IF found = {}
            THEN /\ last' = Answer("get_file", "404")
                 /\ UNCHANGED detailCache
            ELSE /\ detailCache' = IF redis_given /\ cache_ok
                                      THEN detailCache \cup {DetailKey(tenant_id, fid)}
                                      ELSE detailCache
                 /\ last' = Answer("get_file", "200")
  /\ UNCHANGED <<fileTable, fileStore, listCache>>
  /\ UNCHANGED list_call
  /\ UNCHANGED <<uploadVars, legacyVars, zipVars, sanVars>>

\* list_files: a cached list is served as it is; otherwise the tenant's rows
\* are listed and the list cached.
list_files(tenant_id, redis_given) ==
  /\ \E read_ok \in BOOLEAN, set_ok \in BOOLEAN :
       IF redis_given /\ read_ok /\ listCache[tenant_id] # {}
         THEN UNCHANGED listCache
         ELSE LET items == {r.file_id : r \in {x \in fileTable : x.tenant_id = tenant_id}}
              IN listCache' = IF redis_given /\ set_ok
                                THEN [listCache EXCEPT ![tenant_id] = {items}]
                                ELSE listCache
  /\ last' = Answer("list_files", "200")
  /\ UNCHANGED <<fileTable, fileStore, detailCache>>
  /\ UNCHANGED list_call
  /\ UNCHANGED <<uploadVars, legacyVars, zipVars, sanVars>>

\* update_file: FileCRUD.update_mutable (get_by_id, the assignments, db.add,
\* commit, refresh), then the cache invalidation. Whether the row's
\* modified_at moves on an UPDATE is decided by the table's model class, so the
\* update either leaves it or sets it to the time of the update (1).
update_file(tenant_id, fid, tag, metadata, redis_given) ==
  /\ LET found == GetById(fileTable, tenant_id, fid)
     IN IF found = {}
          THEN /\ last' = Answer("update_file", "404")
               /\ UNCHANGED <<fileTable, detailCache, listCache>>
          ELSE \E db \in {"ok", "commit_fails", "refresh_fails"} :
                 IF db = "commit_fails"
                   THEN /\ last' = Answer("update_file", "500")
                        /\ UNCHANGED <<fileTable, detailCache, listCache>>
                   ELSE \E touched \in BOOLEAN :
                          LET obj == CHOOSE r \in found : TRUE
                              set == UpdateMutable(obj, tag, metadata)
                              rec == [set EXCEPT !.modified_at = IF touched THEN 1 ELSE @]
                          IN /\ fileTable' = (fileTable \ {obj}) \cup {rec}
                             /\ IF db = "refresh_fails"
                                  THEN /\ last' = Answer("update_file", "500")
                                       /\ UNCHANGED <<detailCache, listCache>>
                                  ELSE \E outcome \in DeleteOutcomes(redis_given) :
                                         /\ detailCache' = DetailAfterInvalidation(
                                              detailCache, tenant_id, fid, redis_given, outcome)
                                         /\ listCache' = ListAfterInvalidation(
                                              listCache, tenant_id, redis_given, outcome)
                                         /\ last' = Answer("update_file", "200")
  /\ UNCHANGED fileStore
  /\ UNCHANGED list_call
  /\ UNCHANGED <<uploadVars, legacyVars, zipVars, sanVars>>

\* Variant: the file is left on disk.
DeleteFilePathKeeps(paths, path) == paths

\* delete_file_path: unlink if the path exists and is a regular file. Unlinking
\* a file of the repository is taken to succeed.
DeleteFilePath(paths, path) == paths \ {path}

\* delete_file: FileCRUD.delete (get_by_id, db.delete, commit), then the file
\* is removed from disk and the caches are invalidated.
delete_file(tenant_id, fid, redis_given) ==
  /\ LET found == GetById(fileTable, tenant_id, fid)
     IN IF found = {}
          THEN /\ last' = Answer("delete_file", "404")
               /\ UNCHANGED <<fileTable, fileStore, detailCache, listCache>>
          ELSE \E db \in {"ok", "commit_fails"} :
                 IF db = "commit_fails"
                   THEN /\ last' = Answer("delete_file", "500")
                        /\ UNCHANGED <<fileTable, fileStore, detailCache, listCache>>
                   ELSE \E outcome \in DeleteOutcomes(redis_given) :
                          LET rec == CHOOSE r \in found : TRUE
                          IN /\ fileTable' = fileTable \ {rec}
                             /\ fileStore' = DeleteFilePath(fileStore, rec.file_path)
                             /\ detailCache' = DetailAfterInvalidation(
                                  detailCache, tenant_id, fid, redis_given, outcome)
                             /\ listCache' = ListAfterInvalidation(
                                  listCache, tenant_id, redis_given, outcome)
                             /\ last' = Answer("delete_file", "204")
  /\ UNCHANGED list_call
  /\ UNCHANGED <<uploadVars, legacyVars, zipVars, sanVars>>

\* cache_set_files_list: redis.set of the key of the tenant's list
CacheSetFilesList(cache, tenant_id, items) == [cache EXCEPT ![tenant_id] = {items}]

\* list_by_tenant, as the file ids of the rows it returns
ListByTenant(rows, tenant_id) == {r.file_id : r \in {x \in rows : x.tenant_id = tenant_id}}

\* list_files up to the end of `await file_crud.list_by_tenant`: a cached list
\* is returned at once; on a miss, a cache error or without a cache the rows
\* of the tenant are read from the store.
list_files_fetch(tenant_id, redis_given) ==
  /\ list_call.stage = "idle"
  /\ \E read_ok \in BOOLEAN :
       IF redis_given /\ read_ok /\ listCache[tenant_id] # {}
         THEN /\ last' = Answer("list_files", "200")
              /\ UNCHANGED list_call
         ELSE /\ list_call' = [stage |-> "fetched", tenant_id |-> tenant_id,
                               files |-> ListByTenant(fileTable, tenant_id),
                               redis_given |-> redis_given]
              /\ UNCHANGED last
  /\ UNCHANGED <<fileTable, fileStore, detailCache, listCache>>
  /\ UNCHANGED <<uploadVars, legacyVars, zipVars, sanVars>>

\* list_files from `await cache_set_files_list` on: the list that was read is
\* written to the cache (an error is logged) and returned.
list_files_store ==
  /\ list_call.stage = "fetched"
  /\ \E set_ok \in BOOLEAN :
       listCache' = IF list_call.redis_given /\ set_ok
                      THEN CacheSetFilesList(listCache, list_call.tenant_id, list_call.files)
                      ELSE listCache
  /\ last' = Answer("list_files", "200")
  /\ list_call' = NoListCall
  /\ UNCHANGED <<fileTable, fileStore, detailCache>>
  /\ UNCHANGED <<uploadVars, legacyVars, zipVars, sanVars>>

NextInterleaved ==
  \/ \E t \in Tenants, redis_given \in BOOLEAN : list_files_fetch(t, redis_given)
  \/ list_files_store
  \/ \E t \in Tenants, f \in FileIds, redis_given \in BOOLEAN :
       \/ delete_file(t, f, redis_given)
       \/ \E tag \in TagInputs, metadata \in MetadataInputs :
            update_file(t, f, tag, metadata, redis_given)

InitRecords ==
  /\ UploadInit(0)
  /\ ServiceInit(Unlimited)
  /\ RecordsInit(CommittedFiles)
  /\ ZipInit
  /\ SanitizeInit({<< >>})

NextUpdates ==
  \E t \in Tenants, f \in FileIds, redis_given \in BOOLEAN :
    \E tag \in TagInputs, metadata \in MetadataInputs :
      update_file(t, f, tag, metadata, redis_given)

\* update_file calls, one after another, on the records two uploads left and
\* on file ids their tenant has no record of.
SpecUpdates == InitRecords /\ [][NextUpdates]_vars

NextRecords ==
  \/ NextUpdates
  \/ \E t \in Tenants, redis_given \in BOOLEAN :
       \/ list_files(t, redis_given)
       \/ \E f \in FileIds : get_file(t, f, redis_given) \/ delete_file(t, f, redis_given)

\* get_file, list_files, update_file and delete_file calls, one after another,
\* on the records two uploads left.
SpecRecords == InitRecords /\ [][NextRecords]_vars

NextIsolation ==
  \/ \E redis_given \in BOOLEAN : list_files("t2", redis_given) \/ get_file("t2", 2, redis_given)
  \/ \E f \in FileIds, redis_given \in BOOLEAN :
       \/ get_file("t1", f, redis_given)
       \/ delete_file("t1", f, redis_given)
       \/ list_files("t1", redis_given)
       \/ \E tag \in TagInputs, metadata \in MetadataInputs :
            update_file("t1", f, tag, metadata, redis_given)

\* Tenant t2 reads its own file and list; tenant t1 calls get_file, update_file
\* and delete_file with its own file id and with that of t2.
SpecIsolation == InitRecords /\ [][NextIsolation]_vars

\* One list_files call at a time, whose awaits let update_file and delete_file
\* calls run between its read of the store and its cache write.
SpecInterleaved == InitRecords /\ [][NextInterleaved]_vars

\* ------------------------------------------------------------- claims
Done(c) == pc[c] = "done"
InFlight(c) == pc[c] \in {"open", "stream", "validate", "create", "invalidate", "release"}
Status(c) == response[c].status
RecordsOf(c) == {r \in records : file_id[c] # 0 /\ r.file_id = file_id[c]}
NoBytesOf(c) == dst_path[c] = NoPath \/ dst_path[c] \notin DOMAIN disk
HoldsKey(c) ==
  /\ upload_lock[c] # NoLock
  /\ upload_lock[c] \in DOMAIN redisLocks
  /\ redisLocks[upload_lock[c]] = c

\* C1: of the upload_file calls that were given the same reachable cache and
\* share (tenant_id, declared filename), at most one is past the lock step and
\* not yet finished.
C1_MutualExclusion ==
  \A c1, c2 \in Calls :
    (/\ c1 # c2
     /\ inp[c1].redis /\ inp[c2].redis
     /\ nx_result[c1] # "error" /\ nx_result[c2] # "error"
     /\ LockKey(inp[c1].tenant, inp[c1].filename) = LockKey(inp[c2].tenant, inp[c2].filename))
    => ~(InFlight(c1) /\ InFlight(c2))

\* C2: a call whose SET NX found the lock key present has failed with 409 at
\* once: it is finished, generated no file id, opened no destination and stored
\* no record.
C2_FailFastConflict ==
  \A c \in Calls :
    nx_result[c] = "busy" =>
      /\ Done(c) /\ Status(c) = "409"
      /\ file_id[c] = 0 /\ dst_path[c] = NoPath /\ RecordsOf(c) = {}

C4_RollbackOnFailure ==
  \A c \in Calls :
    (Done(c) /\ Status(c) \in {"400", "409", "429", "500"}) =>
      (RecordsOf(c) = {} /\ NoBytesOf(c))

\* C5: every record of the store belongs to a call whose stream ended and
\* whose final validation and content reconciliation passed, and the file at
\* its path exists with the record's size.
C5_NoPartialCommit ==
  \A r \in records :
    \E c \in Calls :
      /\ file_id[c] = r.file_id
      /\ pc[c] \in {"invalidate", "release", "done"}
      /\ size[c] = inp[c].length
      /\ r.file_path \in DOMAIN disk
      /\ disk[r.file_path] = r.file_size_bytes

\* What an upload brings, read off its arguments alone.
DeclaredMime(c) == DetectMime(SafeName(c), inp[c].content_type)
Lowered(exts) == {Lower(e) : e \in exts}
LoweredMimes(ms) == {LowerMime(m) : m \in ms}

RECURSIVE Depth(_)
Depth(a) ==
  IF Len(a.nested) = 0 THEN 0
  ELSE LET ds == {Depth(a.nested[i]) : i \in 1..Len(a.nested)}
       IN 1 + (CHOOSE d \in ds : \A e \in ds : e <= d)

RECURSIVE WellFormed(_)
WellFormed(a) == a.kind = "zip" /\ \A i \in 1..Len(a.nested) : WellFormed(a.nested[i])

WithinSize(c) ==
  /\ inp[c].length > 0
  /\ inp[c].config.max_file_size_kbytes # << >> =>
       inp[c].length <= inp[c].config.max_file_size_kbytes[1] * 1024

WithinExtensions(c) ==
  /\ Ext(c) \in Lowered(inp[c].config.allowed_extensions)
  /\ Ext(c) \notin Lowered(inp[c].config.forbidden_extensions)

WithinMimes(c) ==
  /\ LowerMime(DeclaredMime(c)) \in LoweredMimes(inp[c].config.allowed_mime_types)
  /\ LowerMime(DeclaredMime(c)) \notin LoweredMimes(inp[c].config.forbidden_mime_types)

IsArchiveUpload(c) == Ext(c) = ExtZip

WithinNesting(c) ==
  IsArchiveUpload(c) =>
    /\ WellFormed(inp[c].archive)
    /\ inp[c].config.max_zip_depth # << >>
    /\ inp[c].config.max_zip_depth[1] >= 0
    /\ Depth(inp[c].archive) <= inp[c].config.max_zip_depth[1]

Sniffed(c) == SniffMime(inp[c].sample, "")
Recognised(c) == Sniffed(c) # ""
Contradicts(c) ==
  \/ Ext(c) = ExtPdf /\ Recognised(c) /\ Sniffed(c) # "application/pdf"
  \/ Ext(c) # ExtPdf /\ Sniffed(c) = "application/pdf"

\* Ended neither at the rate limiter nor on a storage failure.
Judged(c) == Done(c) /\ Status(c) \notin {"429", "500"}

\* C6: an upload whose content satisfies every configured limit (size,
\* extension, media type, archive nesting) succeeds, and its record's size is
\* the length of the stream. Calls stopped by the rate limiter or a storage
\* failure, and contents whose signature contradicts the name, are left out.
C6_SuccessWithinLimits ==
  \A c \in Calls :
    (/\ Judged(c)
     /\ WithinSize(c) /\ WithinExtensions(c) /\ WithinMimes(c) /\ WithinNesting(c)
     /\ ~ContentMismatch(Ext(c), SniffMime(inp[c].sample, DeclaredMime(c))))
    => /\ Status(c) = "201"
       /\ \E r \in RecordsOf(c) : r.file_size_bytes = inp[c].length

Oversize(c) ==
  /\ inp[c].config.max_file_size_kbytes # << >>
  /\ inp[c].length > inp[c].config.max_file_size_kbytes[1] * 1024

C8_FailClosedExtensions ==
  \A c \in Calls :
    (Done(c) /\ Ext(c) \notin Lowered(inp[c].config.allowed_extensions)) =>
      /\ Status(c) # "201" /\ RecordsOf(c) = {}
      /\ Judged(c) => Status(c) = "400"

C8_Witness ==
  \E c \in Calls :
    /\ Done(c)
    /\ inp[c].config.allowed_extensions = {}
    /\ Ext(c) \notin Lowered(inp[c].config.forbidden_extensions)
    /\ response[c] = Error400("File extension not allowed")
    /\ RecordsOf(c) = {} /\ NoBytesOf(c)

\* C9: for a well-formed .zip upload nested to depth d and max_zip_depth m >= 0,
\* every other limit satisfied, ingestion succeeds iff d <= m (calls stopped by
\* the rate limiter or a storage failure left out).
C9_ArchiveNestingLimit ==
  \A c \in Calls :
    (/\ Judged(c) /\ IsArchiveUpload(c)
     /\ WellFormed(inp[c].archive)
     /\ inp[c].config.max_zip_depth # << >> /\ inp[c].config.max_zip_depth[1] >= 0
     /\ WithinSize(c) /\ WithinExtensions(c) /\ WithinMimes(c))
    => (Status(c) = "201" <=> Depth(inp[c].archive) <= inp[c].config.max_zip_depth[1])

Started(c) == pc[c] # "idle"
RecordsOfTenant(t) == {r \in records : r.tenant_id = t}
SucceededFor(t) == {c \in Calls : Done(c) /\ inp[c].tenant = t /\ Status(c) = "201"}

\* C11: every successful upload has exactly one record, stored under its own
\* file id; the file ids of different uploads differ, also when name and content
\* are the same; and when every upload a tenant has started has ended in
\* success, the tenant has as many records as uploads.
C11_NoDeduplication ==
  /\ \A c \in Calls : Status(c) = "201" => Cardinality(RecordsOf(c)) = 1
  /\ \A c, d \in Calls :
       (c # d /\ file_id[c] # 0 /\ file_id[d] # 0) => file_id[c] # file_id[d]
  /\ \A t \in Tenants :
       (\A c \in Calls : (Started(c) /\ inp[c].tenant = t) => c \in SucceededFor(t))
         => Cardinality(RecordsOfTenant(t)) = Cardinality(SucceededFor(t))

C11_Witness ==
  \E c, d \in Calls :
    /\ c # d /\ Done(c) /\ Done(d) /\ Status(c) = "201" /\ Status(d) = "201"
    /\ inp[c] = inp[d]
    /\ Cardinality(RecordsOfTenant(inp[c].tenant)) = 2
    /\ \E r \in RecordsOf(c), q \in RecordsOf(d) :
         r.file_id # q.file_id /\ r.file_name = q.file_name /\ r.file_path # q.file_path

SvcOwnsPath(c) ==
  /\ svc_file_path[c] # NoPath
  /\ svc_pc[c] = "create" \/ svc_response[c].status = "201"

\* C12: no two uploads, in flight or committed, share a destination path, on
\* either upload path of the service; and the bytes at the file_path of every
\* record that is not deleted are those its own upload saved.
C12_ExclusiveDestination ==
  /\ \A c, d \in Calls :
       (c # d /\ dst_path[c] # NoPath /\ dst_path[d] # NoPath) => dst_path[c] # dst_path[d]
  /\ \A c, d \in Calls :
       (c # d /\ SvcOwnsPath(c) /\ SvcOwnsPath(d)) => svc_file_path[c] # svc_file_path[d]
  /\ \A r \in files :
       ~r.is_deleted => (r.file_path \in DOMAIN storage /\ storage[r.file_path] = r.upload)

\* Conflict, ValidationFailed, QuotaExceeded, NotFound, StorageError as HTTP statuses
FailureSurface == {"409", "400", "413", "404", "500"}

RulesInOrder(cfg, ext, mime, size_bytes, archive) ==
  <<[broken |-> size_bytes = 0, reason |-> "Empty files are not allowed"],
    [broken |-> /\ cfg.max_file_size_kbytes # << >>
                /\ cfg.max_file_size_kbytes[1] > 0
                /\ size_bytes > cfg.max_file_size_kbytes[1] * 1024,
     reason |-> "File exceeds maximum allowed size"],
    [broken |-> ext \in Lowered(cfg.forbidden_extensions),
     reason |-> "File extension is forbidden"],
    [broken |-> ext \notin Lowered(cfg.allowed_extensions),
     reason |-> "File extension not allowed"],
    [broken |-> LowerMime(mime) \in LoweredMimes(cfg.forbidden_mime_types),
     reason |-> "MIME type is forbidden"],
    [broken |-> LowerMime(mime) \notin LoweredMimes(cfg.allowed_mime_types),
     reason |-> "MIME type not allowed"],
    [broken |-> ZipCheck(cfg, ext, archive) # "ok",
     reason |-> ZipCheck(cfg, ext, archive)]>>

FirstBroken(rules) ==
  LET broken == {i \in 1..Len(rules) : rules[i].broken}
  IN IF broken = {} THEN "ok"
     ELSE rules[CHOOSE i \in broken : \A j \in broken : i <= j].reason

BrokenCount(rules) == Cardinality({i \in 1..Len(rules) : rules[i].broken})

\* C14: for the arguments of every call, at each size the stream can have
\* reached and with the archive whole or still truncated, the reason
\* _validate_against_config reports is that of the first broken rule in the
\* order zero-byte, size, forbidden extension, extension not allowed, forbidden
\* media type, media type not allowed, archive depth ("ok" when none is broken).
C14_FixedValidationOrder ==
  \A c \in Calls :
    Started(c) =>
      \A sz \in {0, size[c], inp[c].length}, a \in {inp[c].archive, TruncatedArchive} :
        ValidateAgainstConfig(inp[c].config, Ext(c), DeclaredMime(c), sz, a)
          = FirstBroken(RulesInOrder(inp[c].config, Ext(c), DeclaredMime(c), sz, a))

C14_Witness ==
  \E c \in Calls :
    /\ Done(c)
    /\ response[c] = Error400("File exceeds maximum allowed size")
    /\ BrokenCount(RulesInOrder(inp[c].config, Ext(c), DeclaredMime(c), size[c],
                                inp[c].archive)) >= 4

ExtOnBothLists(c) ==
  /\ Ext(c) \in Lowered(inp[c].config.forbidden_extensions)
  /\ Ext(c) \in Lowered(inp[c].config.allowed_extensions)

MimeOnBothLists(c) ==
  /\ LowerMime(DeclaredMime(c)) \in LoweredMimes(inp[c].config.forbidden_mime_types)
  /\ LowerMime(DeclaredMime(c)) \in LoweredMimes(inp[c].config.allowed_mime_types)

\* C15: when the extension, or the media type, of an upload is on both the
\* forbidden and the allowed list of the configuration, validation rejects it
\* at every size, and the upload never succeeds and stores no record.
C15_ForbiddenWinsOverAllowed ==
  \A c \in Calls :
    (Started(c) /\ (ExtOnBothLists(c) \/ MimeOnBothLists(c))) =>
      /\ \A sz \in {size[c], inp[c].length}, a \in {inp[c].archive, TruncatedArchive} :
           ValidateAgainstConfig(inp[c].config, Ext(c), DeclaredMime(c), sz, a) # "ok"
      /\ Status(c) # "201" /\ RecordsOf(c) = {}
      /\ Judged(c) => Status(c) = "400"

C15_Witness ==
  \E c \in Calls :
    /\ Done(c) /\ MimeOnBothLists(c) /\ ~ExtOnBothLists(c)
    /\ response[c] = Error400("MIME type is forbidden")
    /\ RecordsOf(c) = {} /\ NoBytesOf(c)

SvcAdmitted(c) ==
  \/ svc_pc[c] \in {"save", "create"}
  \/ svc_pc[c] = "done" /\ svc_response[c].status \notin {"404", "413"}

\* C17: an upload rejected with 413 has saved no file and stored no row; and an
\* upload admitted past both quota checks did not, by the usage it read, take
\* the tenant over a quota that is set: the file count it read plus one is
\* within file_count_limit, and the bytes it read plus its size are within
\* storage_quota_bytes.
C17_QuotaPreAdmission ==
  \A c \in Calls :
    /\ svc_response[c].status = "413" =>
         (svc_file_path[c] = NoPath /\ \A r \in files : r.upload # c)
    /\ SvcAdmitted(c) =>
         LET tenant == tenants[svc_in[c].tenant_code]
         IN /\ Truthy(tenant.file_count_limit) =>
                 \A n \in svc_snapshot[c].file_count : n + 1 <= tenant.file_count_limit[1]
            /\ Truthy(tenant.storage_quota_bytes) =>
                 \A b \in svc_snapshot[c].total_storage_bytes :
                   b + svc_in[c].file_size <= tenant.storage_quota_bytes[1]

\* C18: after any sequence of record creations, soft deletes and permanent
\* deletes, get_stats reports for each tenant the number and the summed sizes
\* of that tenant's rows created and not deleted since (liveCount, liveBytes,
\* kept as the operations happen); soft-deleted rows and the rows of other
\* tenants are not counted.
C18_LedgerAggregation ==
  \A t \in Tenants :
    /\ GetStats(files, t).file_count = liveCount[t]
    /\ GetStats(files, t).total_storage_bytes = liveBytes[t]

C18_Witness ==
  \E r, q \in files :
    /\ r.tenant_id = "t1" /\ r.is_deleted
    /\ q.tenant_id = "t2" /\ ~q.is_deleted
    /\ GetStats(files, "t1").file_count = 0 /\ GetStats(files, "t1").total_storage_bytes = 0
    /\ GetStats(files, "t2").file_count = 1
    /\ GetStats(files, "t2").total_storage_bytes = q.file_size

\* A quota that constrains: set and not zero
QuotaSet(opt) == opt # << >> /\ opt[1] > 0

C20_CacheInvalidatedOnUpload ==
  \A c \in Calls :
    (Done(c) /\ Status(c) = "201") => filesListCache[inp[c].tenant] = {}

\* ---------------------------------------------------------------- C21
\* C21: cache errors are not fatal. An upload_file call whose record was
\* stored and whose cache invalidation raised (on the file-list key or on the
\* file-detail key) still ends 201, its record is in the metadata store and
\* its file is on disk with all its bytes.
C21_CacheErrorsNonFatal ==
  \A c \in Calls :
    (Done(c) /\ cache_error[c] # "none") =>
      /\ Status(c) = "201"
      /\ RecordsOf(c) = {NewRecord(c)}
      /\ dst_path[c] \in DOMAIN disk
      /\ disk[dst_path[c]] = inp[c].length

\* Both deletions have been seen to raise: one call ended after the file-list
\* deletion raised, the other after the file-detail deletion raised.
C21_Witness ==
  \E c, d \in Calls :
    /\ Done(c) /\ cache_error[c] = "files_list"
    /\ Done(d) /\ cache_error[d] = "file_detail"


\* ---------------------------------------------------------------- C22
\* The columns the record model calls immutable, with file_name.
Immutables(r) ==
  <<r.file_id, r.tenant_id, r.file_path, r.file_size_bytes, r.media_type, r.file_name,
    r.created_at>>

\* C22: record immutability. After any sequence of update_file calls every
\* record still has the file_id, tenant_id, storage path, size_bytes,
\* media_type, file_name and created_at it was committed with; and one
\* update_file call changes, of the record it names, only tag and metadata (and
\* modified_at) and no other record, and of these two only the ones it was
\* given: an argument left out (None) leaves its column as it was, one
\* supplied becomes the column's value when the update is answered 200.
C22_RecordImmutability ==
  /\ [](\A r \in fileTable : \E o \in CommittedFiles : Immutables(r) = Immutables(o))
  /\ [][\A t \in Tenants, f \in FileIds, tag \in TagInputs, md \in MetadataInputs,
          rg \in BOOLEAN :
          update_file(t, f, tag, md, rg) =>
            /\ {Immutables(q) : q \in fileTable'} = {Immutables(r) : r \in fileTable}
            /\ \A r \in fileTable : \A q \in fileTable' :
                 (q.file_id = r.file_id) =>
                   /\ ((r.file_id # f \/ r.tenant_id # t) => (q = r))
                   /\ ((tag = << >>) => (q.tag = r.tag))
                   /\ ((md = << >>) => (q.file_metadata = r.file_metadata))
                   /\ q.tag \in {r.tag, tag}
                   /\ q.file_metadata \in {r.file_metadata, md}
                   /\ ((last'.status = "200" /\ r.file_id = f /\ tag # << >>) => (q.tag = tag))
                   /\ ((last'.status = "200" /\ r.file_id = f /\ md # << >>)
                         => (q.file_metadata = md))]_vars

\* An update_file call answered 200 and a record carries a tag and metadata
\* that update_file calls gave it, and a moved modified_at.
C22_Witness ==
  /\ last = Answer("update_file", "200")
  /\ \E r \in fileTable :
       r.tag = <<"a">> /\ r.file_metadata = <<"m1">> /\ r.modified_at = 1

C24_CleanupOnCancellation ==
  \A c \in Calls :
    (Done(c) /\ Status(c) = "cancelled") =>
      /\ NoBytesOf(c)
      /\ upload_lock[c] # NoLock => upload_lock[c] \notin DOMAIN redisLocks
      /\ RecordsOf(c) = {}


\* ---------------------------------------------------------------- C25
\* C25: lock ownership. The release an upload_file call performs in its
\* finally clause never removes a lock key that is, at that moment, held by
\* another call: every key set by a different call is still in the cache, and
\* still that call's, after the release.
C25_LockOwnership ==
  [][\A c \in Calls :
      (pc[c] = "release" /\ ReleaseUploadLock(c)) =>
        \A k \in DOMAIN redisLocks :
          (redisLocks[k] # c) => (k \in DOMAIN redisLocks' /\ redisLocks'[k] = redisLocks[k])]_vars


\* ---------------------------------------------------------------- C26
\* C26: lock self-healing. Whatever becomes of the call that set it (it ends
\* and its release fails, or it never takes another step), a lock key that is
\* in the cache is eventually not in the cache, so that a SET NX on it
\* succeeds again: no lock key stays forever.
C26_LockSelfHealing ==
  \A k \in LockKeys : (k \in DOMAIN redisLocks) ~> (k \notin DOMAIN redisLocks)

\* A call has ended with its release failed, and the key it set is still in
\* the cache.
C26_Witness ==
  \E c \in Calls :
    /\ Done(c) /\ release_error[c]
    /\ upload_lock[c] \in DOMAIN redisLocks /\ redisLocks[upload_lock[c]] = c


\* ---------------------------------------------------------------- C27
\* The running total after the i-th chunk of a stream of `length` bytes read
\* 1 MiB at a time.
TotalAfter(length, i) == IF i * ChunkSize < length THEN i * ChunkSize ELSE length

\* The index of the first chunk after which the running total exceeds
\* limit_bytes (length > limit_bytes, so there is one).
RECURSIVE FirstCrossing(_, _, _)
FirstCrossing(length, limit_bytes, i) ==
  IF TotalAfter(length, i) > limit_bytes THEN i
  ELSE FirstCrossing(length, limit_bytes, i + 1)

CrossingChunk(c) ==
  FirstCrossing(inp[c].length, inp[c].config.max_file_size_kbytes[1] * 1024, 1)

ChunksConsumed(c) == (size[c] + ChunkSize - 1) \div ChunkSize

InspectorVerdicts ==
  {Error400("Invalid ZIP file format"), Error400("ZIP files with nested ZIPs are not allowed")}

\* C28: archive inspection only on the completed file. An upload is rejected
\* with a verdict of the Zip Depth Inspector only after its whole stream was
\* written, and a well-formed archive longer than one chunk that satisfies
\* every limit (size, extension, media type, nesting) is stored (calls stopped
\* by the rate limiter or a storage failure left out).
C28_InspectionOnCompletedFile ==
  \A c \in Calls :
    /\ (Done(c) /\ response[c] \in InspectorVerdicts) => size[c] = inp[c].length
    /\ (/\ Judged(c) /\ IsArchiveUpload(c) /\ inp[c].length > ChunkSize
        /\ WithinSize(c) /\ WithinExtensions(c) /\ WithinMimes(c) /\ WithinNesting(c)
        /\ ~Contradicts(c))
       => Status(c) = "201"


\* ---------------------------------------------------------------- C29
\* The size rule's verdict.
SizeVerdict == Error400("File exceeds maximum allowed size")

\* The size rule on the running total of call c, and on its whole stream when
\* the other rules do not stand in the way: it rejects exactly the sizes
\* above max_kb * 1024 bytes.
SizeRuleExact(c) ==
  LET max_kb == inp[c].config.max_file_size_kbytes[1]
  IN /\ size[c] > 0 =>
          (SizeCheck(inp[c].config, size[c]) # "ok" <=> size[c] > max_kb * 1024)
     /\ (Done(c) /\ response[c] = SizeVerdict) => inp[c].length > max_kb * 1024
     /\ (/\ Judged(c) /\ inp[c].length > 0 /\ WithinExtensions(c) /\ WithinMimes(c)
         /\ ~IsArchiveUpload(c) /\ ~Contradicts(c))
        => /\ inp[c].length > max_kb * 1024 => response[c] = SizeVerdict
           /\ inp[c].length <= max_kb * 1024 => Status(c) = "201"

RECURSIVE Malformed(_)
Malformed(a) ==
  \/ a.kind = "bad"
  \/ \E i \in 1..Len(a.nested) : Malformed(a.nested[i])

\* The innermost activation of the inspector has just ended.
Ended == zip_stack # << >> /\ zip_signal # "run"

Innermost == zip_stack[Len(zip_stack)]

\* C31 as stated: an inspection of a malformed archive (malformed at the top
\* level or in a nested archive) during which no unexpected error was logged
\* ends with the 400 "Invalid ZIP file format".
C31_InspectorErrorOutcomes ==
  (Len(zip_stack) = 1 /\ Ended /\ Malformed(zip_stack[1].archive) /\ ~zip_log)
     => zip_signal = "Invalid ZIP file format"

\* C31, amended: an inspection called with max_depth < 0 reports success
\* without opening the archive; with max_depth >= 0, an archive zipfile
\* rejects - the top-level one or a nested one that was extracted - makes its
\* inspection raise the 400 "Invalid ZIP file format", and an archive whose
\* opening raises any other exception makes its inspection report success
\* (and log it); an archive with a nested archive at max_depth 0 raises the
\* 400 of the depth rule, whatever that nested archive holds; a 400 raised
\* by a nested inspection reaches the caller of the outermost one unchanged.
C31_InspectorErrorOutcomesByDepth ==
  /\ [](Ended =>
         /\ Innermost.max_depth < 0 => zip_signal = "ok"
         /\ (Innermost.max_depth >= 0 /\ Innermost.archive.kind = "bad")
               => zip_signal = "Invalid ZIP file format"
         /\ (Innermost.max_depth >= 0 /\ Innermost.archive.kind = "unreadable")
               => (zip_signal = "ok" /\ zip_log)
         /\ (Innermost.max_depth = 0 /\ Innermost.archive.kind = "zip"
                /\ Innermost.archive.nested # << >>)
               => zip_signal = "ZIP files with nested ZIPs are not allowed")
  /\ [][(Ended /\ zip_signal # "ok")
          => \/ (zip_stack' # << >> /\ zip_signal' = zip_signal)
             \/ (zip_stack' = << >> /\ zip_result' = zip_signal)]_vars

\* A nested archive whose opening raised an unexpected exception: its
\* inspection has reported success to the inspection of the enclosing archive.
C31_Witness ==
  /\ Len(zip_stack) = 2
  /\ Innermost.archive.kind = "unreadable"
  /\ zip_signal = "ok"
  /\ zip_log


\* ---------------------------------------------------------------- C32
\* C32: the quota race. A FileService.upload_file call that commits a row
\* taking its tenant's stored bytes above a configured storage quota passed
\* its storage check on a snapshot smaller than what was stored when it
\* committed (another upload committed in between), or on no snapshot at all
\* (get_stats returned None); C32_Witness is the interleaving of the claim.
C32_OvershootOnlyBySnapshot ==
  [][\A c \in Calls :
       LET t == svc_in[c].tenant_code
           quota == tenants[t].storage_quota_bytes
       IN (/\ svc_pc[c] = "create" /\ svc_pc'[c] = "done" /\ files' # files
           /\ Truthy(quota) /\ liveBytes'[t] > quota[1])
          => \/ svc_snapshot[c].total_storage_bytes = {}
             \/ \E seen \in svc_snapshot[c].total_storage_bytes : seen < liveBytes[t]]_vars

\* Two uploads of tenant t1 with different filenames both passed the storage
\* check on the snapshot of the empty store and both committed: 12 bytes are
\* stored under a quota of 10.
C32_Witness ==
  /\ \A c \in Calls :
        /\ svc_pc[c] = "done" /\ svc_response[c].status = "201"
        /\ svc_in[c].tenant_code = "t1"
        /\ svc_snapshot[c].total_storage_bytes = {0}
        /\ svc_snapshot[c].file_count = {0}
  /\ svc_in[1].filename # svc_in[2].filename
  /\ tenants["t1"].storage_quota_bytes = <<10>>
  /\ GetStats(files, "t1").total_storage_bytes = 12


\* ---------------------------------------------------------------- C33
\* Every lock key in the cache was set by a call for another tenant or for
\* another declared filename than those of call c.
OnlyOtherLocksHeld(c) ==
  \A k \in DOMAIN redisLocks :
    LET holder == redisLocks[k]
    IN holder # c /\ (inp[holder].tenant # inp[c].tenant \/ inp[holder].filename # inp[c].filename)

\* C33: independent lock keys. A call that takes the lock step while the only
\* keys in the cache are those of other tenants or of other filenames does not
\* find the lock busy and is not answered 409: it goes on to open its
\* destination, holding its own key when the cache answered.
C33_IndependentLockKeys ==
  [][\A c \in Calls :
       (pc[c] = "lock" /\ pc'[c] # "lock" /\ OnlyOtherLocksHeld(c))
       => /\ nx_result'[c] # "busy"
          /\ response'[c].status # "409"
          /\ pc'[c] = "open"
          /\ nx_result'[c] = "acquired" => HoldsKey(c)']_vars

\* Two calls of tenant t1 with different filenames both hold their lock and
\* are both past the lock step.
C33_Witness ==
  /\ inp[1].tenant = "t1" /\ inp[2].tenant = "t1"
  /\ inp[1].filename # inp[2].filename
  /\ HoldsKey(1) /\ HoldsKey(2)
  /\ InFlight(1) /\ InFlight(2)


\* ---------------------------------------------------------------- C34
HasDotDot(s) == \E i \in 1..(Len(s) - 1) : s[i] = "." /\ s[i + 1] = "."

Sanitised(s) ==
  /\ s # << >>
  /\ Len(s) <= 200
  /\ \A i \in 1..Len(s) : s[i] \notin {"NUL", "/", "\\"}
  /\ ~HasDotDot(s)

\* C34: for every declared filename, what sanitize_filename returns is
\* non-empty, at most 200 characters long, and holds no NUL, no '/', no '\'
\* and no '..'; sanitize_filename returns a name it returned before unchanged.
C34_FilenameSanitisation ==
  /\ san_calls >= 1 => Sanitised(san_name)
  /\ san_calls = 2 => san_name = san_given

\* A name longer than 200 characters that begins with a path separator and a
\* dot was cut to 200 characters, and the result was sanitised again.
C34_Witness ==
  /\ san_calls = 2
  /\ Len(san_name) = 200
  /\ san_name[1] = "_"
  /\ san_name[2] = "."


\* ---------------------------------------------------------------- C35
\* C35: the media_type of every stored record is in allowed_mime_types and not
\* in forbidden_mime_types of the configuration its upload was given.
C35_StoredMediaTypeWithinPolicy ==
  \A c \in Calls : \A r \in RecordsOf(c) :
    LET cfg == inp[c].config
    IN /\ LowerMime(r.media_type) \in {LowerMime(m) : m \in cfg.allowed_mime_types}
       /\ LowerMime(r.media_type) \notin {LowerMime(m) : m \in cfg.forbidden_mime_types}


\* ---------------------------------------------------------------- C38
\* C38: the counter of a tenant's rate-limit window, which counts the calls
\* admitted past check_upload_rate_limit with the cache answering (those
\* before the calls of the model and these), never exceeds 50.
C38_UploadRateLimitBound ==
  \A t \in DOMAIN rateCount : rateCount[t] <= UploadMaxRequests


\* ---------------------------------------------------------------- C36
\* C36: file-list cache coherence. Whenever a list is written to the cache it
\* is the list of the tenant's records in the store at that time, so that a
\* list_files call that read the store before a commit does not leave its
\* stale list in the cache after that commit's invalidation; and whenever no
\* list_files call is in flight, a list that is in the cache and was written
\* by such a call equals the list of the tenant's records in the store.
C36_FileListCacheCoherence ==
  [][\A t \in Tenants :
       (listCache'[t] # listCache[t] /\ listCache'[t] # {})
       => listCache'[t] = {ListByTenant(fileTable', t)}]_vars


\* ---------------------------------------------------------------- C37
\* C37: sequential quota safety. Between uploads that run one after another,
\* the number of a tenant's rows that are not deleted is within its
\* file_count_limit and their summed sizes are within its storage_quota_bytes,
\* whatever value the limit is configured to.
C37_SequentialQuotaSafety ==
  (\A c \in Calls : svc_pc[c] \in {"idle", "done"}) =>
    \A t \in Tenants :
      LET tenant == tenants[t]
          stats == GetStats(files, t)
      IN /\ tenant.file_count_limit # << >> => stats.file_count <= tenant.file_count_limit[1]
         /\ tenant.storage_quota_bytes # << >>
              => stats.total_storage_bytes <= tenant.storage_quota_bytes[1]


\* ---------------------------------------------------------------- C39
\* File id f belongs to a record of another tenant than t.
BelongsToOther(t, f) == \E r \in fileTable : r.file_id = f /\ r.tenant_id # t

\* The step leaves what the other tenants have as it was: their records, the
\* bytes of their files, their detail and list cache entries.
OthersUntouched(t) ==
  /\ {r \in fileTable' : r.tenant_id # t} = {r \in fileTable : r.tenant_id # t}
  /\ \A r \in fileTable : r.tenant_id # t => (r.file_path \in fileStore' <=> r.file_path \in fileStore)
  /\ {k \in detailCache' : k[1] # t} = {k \in detailCache : k[1] # t}
  /\ \A o \in Tenants \ {t} : listCache'[o] = listCache[o]

\* What tenant t is shown is what it would be shown if the store held its own
\* records only.
OwnView(t) ==
  LET own == {r \in fileTable : r.tenant_id = t}
  IN /\ \A f \in FileIds : GetById(fileTable, t, f) = GetById(own, t, f)
     /\ ListByTenant(fileTable, t) = ListByTenant(own, t)

\* The answers a call of tenant t1 with a file id of another tenant may get
\* are those of the set `answers`, and the call leaves the other tenant's
\* record, bytes and cache entries alone.
ForeignCalls(answers) ==
  \A f \in FileIds, redis_given \in BOOLEAN :
    BelongsToOther("t1", f) =>
      /\ get_file("t1", f, redis_given)
           => (last'.status \in answers /\ OthersUntouched("t1"))
      /\ delete_file("t1", f, redis_given)
           => (last'.status \in answers /\ OthersUntouched("t1"))
      /\ \A tag \in TagInputs, metadata \in MetadataInputs :
           update_file("t1", f, tag, metadata, redis_given)
             => (last'.status \in answers /\ OthersUntouched("t1"))

\* C39 as stated: get_file, update_file and delete_file called with tenant
\* t1's id and a file id of tenant t2 answer 404 and leave t2's record, bytes
\* and cache entries as they were; what t1 is shown does not depend on t2's
\* records.
C39_TenantIsolation ==
  [](OwnView("t1")) /\ [][ForeignCalls({"404"})]_vars

\* C39, amended: as above, except that get_file may answer 500 instead of
\* 404 when the metadata store raises.
C39_TenantIsolationOrStoreError ==
  [](OwnView("t1")) /\ [][ForeignCalls({"404", "500"})]_vars

\* Tenant t1 has just been answered 404 by delete_file while tenant t2's
\* record, file and cached detail and list are all there.
C39_Witness ==
  /\ last = Answer("delete_file", "404")
  /\ GetById(fileTable, "t1", 1) # {}
  /\ \E r \in GetById(fileTable, "t2", 2) : r.file_path \in fileStore
  /\ DetailKey("t2", 2) \in detailCache
  /\ listCache["t2"] # {}

====
